---- MODULE Spec2Model ----
(***************************************************************************)
(* Client-side cache layer of nse-analyzer: the two key/value stores       *)
(* (DataStorage over localStorage, DataStorageTauri over the Tauri store   *)
(* plugin), the DB_KEYS key builders, and the cached-fetch idiom of the    *)
(* NSE and MCX API clients.                                                *)
(*                                                                         *)
(* Strings are sequences of atoms (an atom is an indivisible run of        *)
(* characters), so concatenation is \o and startsWith is a prefix test.    *)
(* JavaScript values are records tagged by their type in field t.          *)
(***************************************************************************)
EXTENDS Integers, Sequences, FiniteSets, TLC

\* ------------------------------------------------------------------------
\* Bounds
\* ------------------------------------------------------------------------
\* Date.now() ranges over 1..MaxClock while the process runs; entries that
\* were persisted by an earlier session carry the instant 0.
MaxClock == 2

\* The asynchronous callers (event handlers, effects) that may be in flight.
Tasks == {"t1", "t2"}

\* ------------------------------------------------------------------------
\* JavaScript values
\* ------------------------------------------------------------------------
Undefined == [t |-> "undefined"]
Null == [t |-> "null"]
Bool(b) == [t |-> "boolean", b |-> b]
Num(n) == [t |-> "number", n |-> n]
Str(s) == [t |-> "string", s |-> s]
\* new Date(n).toISOString(): the string that renders instant n
IsoStr(n) == [t |-> "string", iso |-> n]
Obj(f) == [t |-> "object", f |-> f]

\* The truthiness test of `if (x)` and `a && b`
ToBoolean(v) ==
  CASE v.t = "undefined" -> FALSE
    [] v.t = "null" -> FALSE
    [] v.t = "boolean" -> v.b
    [] v.t = "number" -> v.n # 0
    [] v.t = "string" -> v # Str(<<>>)
    [] OTHER -> TRUE

\* Property read v.name on a value that is neither null nor undefined
GetProp(v, name) ==
  IF v.t = "object" /\ name \in DOMAIN v.f THEN v.f[name] ELSE Undefined

\* Template-literal interpolation `${k}` of a string or of undefined
ToStr(k) == IF k.t = "string" THEN k.s ELSE <<k.t>>

StartsWith(s, p) == Len(s) >= Len(p) /\ SubSeq(s, 1, Len(p)) = p

\* ------------------------------------------------------------------------
\* JSON text.  A localStorage value is a string: either the JSON rendering
\* of a value, or some other text that JSON.parse rejects.
\* ------------------------------------------------------------------------
JsonText(v) == [txt |-> "json", v |-> v]
RawText(s) == [txt |-> "raw", s |-> s]

\* What survives JSON serialisation: properties whose value is undefined
\* are dropped, recursively.
RECURSIVE ToJSON(_)
ToJSON(v) ==
  IF v.t = "object"
    THEN Obj([k \in {j \in DOMAIN v.f : v.f[j] # Undefined} |-> ToJSON(v.f[k])])
    ELSE v

\* Variant: the value handed to setItem without JSON.stringify
JSONstringify_coerced(v) == RawText(<<"[object Object]">>)

JSONstringify(v) == JsonText(ToJSON(v))
JSONparseThrows(text) == text.txt # "json"
JSONparse(text) == text.v

\* ------------------------------------------------------------------------
\* StoredData<T> and the data carried by the backend's responses
\* ------------------------------------------------------------------------
StoredData(data, now) ==
  Obj(("data" :> data) @@ ("timestamp" :> IsoStr(now)) @@ ("lastUpdated" :> Num(now)))

D0 == Obj("total" :> Num(5))
D1 == Obj("total" :> Num(10))
D2 == Obj("total" :> Num(20))
DataVals == {D1, D2}

\* ------------------------------------------------------------------------
\* DB_KEYS: the key builders of db.ts and of db_tauri.ts
\* ------------------------------------------------------------------------
DB_KEYS_db == {"SECURITIES_LIST", "CONTRACT_INFO", "SINGLE_ANALYSIS", "BATCH_ANALYSIS"}

DB_KEYS_tauri ==
  {"SECURITIES_LIST", "CONTRACT_INFO", "SINGLE_ANALYSIS", "FUTURES_DATA",
   "BATCH_ANALYSIS", "MCX_TICKERS", "MCX_FUTURE_SYMBOLS", "MCX_OPTION_CHAIN",
   "MCX_FUTURE_QUOTE", "MCX_OPTION_QUOTE", "MCX_BATCH_ANALYSIS",
   "MCX_HISTORICAL_DATA"}

BuildersOf(mod) == IF mod = "db" THEN DB_KEYS_db ELSE DB_KEYS_tauri

\* The i-th argument of a call, interpolated; `dflt` when it is missing or
\* undefined and the parameter has a default value
Param(args, i, dflt) ==
  IF i <= Len(args) /\ args[i] # Undefined THEN ToStr(args[i]) ELSE dflt

Arg(args, i) == Param(args, i, <<"undefined">>)

\* The string a builder yields (the same template in both modules)
KeyString(name, args) ==
  CASE name = "SECURITIES_LIST" -> <<"securities_list">>
    [] name = "CONTRACT_INFO" -> <<"contract_info", ":">> \o Arg(args, 1)
    [] name = "SINGLE_ANALYSIS" ->
         <<"single_analysis", ":">> \o Arg(args, 1) \o <<":">> \o Arg(args, 2)
    [] name = "FUTURES_DATA" ->
         <<"futures_data", ":">> \o Arg(args, 1) \o <<":">> \o Arg(args, 2)
    [] name = "BATCH_ANALYSIS" -> <<"batch_analysis">>
    [] name = "MCX_TICKERS" -> <<"mcx_tickers">>
    [] name = "MCX_FUTURE_SYMBOLS" -> <<"mcx_future_symbols">>
    [] name = "MCX_OPTION_CHAIN" ->
         <<"mcx_option_chain", ":">> \o Arg(args, 1) \o <<":">> \o Arg(args, 2)
    [] name = "MCX_FUTURE_QUOTE" ->
         <<"mcx_future_quote", ":">> \o Arg(args, 1) \o <<":">> \o Arg(args, 2)
    [] name = "MCX_OPTION_QUOTE" ->
         <<"mcx_option_quote", ":">> \o Arg(args, 1) \o <<":">> \o Arg(args, 2)
           \o <<":">> \o Arg(args, 3) \o <<":">> \o Arg(args, 4)
    [] name = "MCX_BATCH_ANALYSIS" -> <<"mcx_batch_analysis">>
    [] name = "MCX_HISTORICAL_DATA" ->
         <<"mcx_historical", ":">> \o Arg(args, 1) \o <<":">> \o Arg(args, 2)
           \o <<":">> \o Arg(args, 3) \o <<":">> \o Arg(args, 4)
           \o <<":">> \o Arg(args, 5) \o <<":">> \o Param(args, 6, <<"null">>)
           \o <<":">> \o Param(args, 7, <<"null">>)

\* Outcome of evaluating DB_KEYS.NAME (isCall = FALSE) or DB_KEYS.NAME(args)
\* against module `mod`: a string, undefined for a property the module does
\* not define, or a TypeError for calling such a property.
TypeErr == [t |-> "TypeError"]

KeyExpr(mod, name, isCall, args) ==
  IF name \in BuildersOf(mod) THEN Str(KeyString(name, args))
  ELSE IF isCall THEN TypeErr ELSE Undefined

\* ------------------------------------------------------------------------
\* The backing media.  Both are maps from physical key (a string) to value:
\* localStorage holds strings, the Tauri store holds JSON values.
\* ------------------------------------------------------------------------
dbName == <<"nse-options-db">>

FullKey(key) == dbName \o <<":">> \o ToStr(key)

getItem(m, pk) == IF pk \in DOMAIN m THEN m[pk] ELSE Null

\* Variant: a write that does not replace an existing value
setItem_keepExisting(m, pk, v) == m @@ (pk :> v)

setItem(m, pk, v) == (pk :> v) @@ m

removeItem(m, pk) == [x \in DOMAIN m \ {pk} |-> m[x]]

\* Variant: the filter without the separator
PrefixedKeys_noColon(m) == {k \in DOMAIN m : StartsWith(k, dbName)}

\* keys.filter(key => key.startsWith(`${this.dbName}:`))
PrefixedKeys(m) == {k \in DOMAIN m : StartsWith(k, dbName \o <<":">>)}

\* DataStorage.getData: the value returned for logical key `key`
DataStorage_getData(ls, key) ==
  LET stored == getItem(ls, FullKey(key)) IN
  IF stored = Null \/ stored = RawText(<<>>) THEN Null
  ELSE IF JSONparseThrows(stored) THEN Null
  ELSE JSONparse(stored)

\* Variant: a write that forgets the namespace prefix
DataStorage_storeData_noPrefix(ls, key, data, now) ==
  setItem(ls, ToStr(key), JSONstringify(StoredData(data, now)))

DataStorage_storeData(ls, key, data, now) ==
  setItem(ls, FullKey(key), JSONstringify(StoredData(data, now)))

\* Variant: clearing one key clears the namespace
DataStorage_clearData_all(ls, key) ==
  [x \in {k \in DOMAIN ls : ~StartsWith(k, dbName \o <<":">>)} |-> ls[x]]

DataStorage_clearData(ls, key) == removeItem(ls, FullKey(key))

DataStorage_clearAllData(ls) == [x \in DOMAIN ls \ PrefixedKeys(ls) |-> ls[x]]

\* store.get(fullKey) of the store plugin: the stored value, or the
\* plugin's "no such key" result, which is undefined in the releases that
\* export load() and null in the API the cast in getData is written for.
StoreGetOutcomes(mem, pk) ==
  IF pk \in DOMAIN mem THEN {mem[pk]} ELSE {Null, Undefined}

\* An arbitrary enumeration of a finite set (the order of store.keys())
RECURSIVE SetToSeq(_)
SetToSeq(S) ==
  IF S = {} THEN <<>>
  ELSE LET x == CHOOSE y \in S : TRUE IN <<x>> \o SetToSeq(S \ {x})

\* ------------------------------------------------------------------------
\* The cached data-fetch operations of apiClient (api_nse.ts) and of
\* mcxApiClient (api_mcx.ts): which DB_KEYS member each one uses, whether it
\* calls it as a function, and the arguments of the call.
\* ------------------------------------------------------------------------
Symbol == Str(<<"NIFTY">>)
Expiry == Str(<<"30-Dec-2025">>)
Commodity == Str(<<"GOLD">>)
OptionType == Str(<<"CE">>)
StrikePrice == Str(<<"100">>)

FetchOp(client, name, builder, isCall, args) ==
  [client |-> client, name |-> name, builder |-> builder, isCall |-> isCall,
   args |-> args]

getSecurities == FetchOp("nse", "getSecurities", "SECURITIES_LIST", FALSE, <<>>)
getContractInfo == FetchOp("nse", "getContractInfo", "CONTRACT_INFO", TRUE, <<Symbol>>)
getSingleAnalysis ==
  FetchOp("nse", "getSingleAnalysis", "SINGLE_ANALYSIS", TRUE, <<Symbol, Expiry>>)
getFuturesData ==
  FetchOp("nse", "getFuturesData", "FUTURES_DATA", TRUE, <<Symbol, Expiry>>)
getBatchAnalysis == FetchOp("nse", "getBatchAnalysis", "BATCH_ANALYSIS", FALSE, <<>>)
getTickers == FetchOp("mcx", "getTickers", "MCX_TICKERS", FALSE, <<>>)
getFutureSymbols == FetchOp("mcx", "getFutureSymbols", "MCX_FUTURE_SYMBOLS", FALSE, <<>>)
getOptionChain ==
  FetchOp("mcx", "getOptionChain", "MCX_OPTION_CHAIN", TRUE, <<Commodity, Expiry>>)
getFutureQuote ==
  FetchOp("mcx", "getFutureQuote", "MCX_FUTURE_QUOTE", TRUE, <<Commodity, Expiry>>)
getOptionQuote ==
  FetchOp("mcx", "getOptionQuote", "MCX_OPTION_QUOTE", TRUE,
          <<Commodity, Expiry, OptionType, StrikePrice>>)
mcxGetBatchAnalysis ==
  FetchOp("mcx", "mcx.getBatchAnalysis", "MCX_BATCH_ANALYSIS", FALSE, <<>>)

FetchOps ==
  { getSecurities, getContractInfo, getSingleAnalysis, getFuturesData,
    getBatchAnalysis, getTickers, getFutureSymbols, getOptionChain,
    getFutureQuote, getOptionQuote, mcxGetBatchAnalysis }

\* The operations one behaviour exercises: each operation alone, and in a
\* browser also two pairs of operations side by side.
Menus(pf) ==
  {{op} : op \in FetchOps}
    \cup (IF pf = "web"
            THEN {{getSecurities, getContractInfo}, {getTickers, getFutureSymbols}}
            ELSE {})

\* api_nse.ts imports db and DB_KEYS from db.ts; api_mcx.ts takes both from
\* getDb(), which selects by platform.
OpDb(op, pf) == IF op.client = "nse" THEN "web" ELSE pf

OpMod(op, pf) ==
  IF op.client = "nse" THEN "db" ELSE IF pf = "tauri" THEN "db_tauri" ELSE "db"

OpKey(op, pf) == KeyExpr(OpMod(op, pf), op.builder, op.isCall, op.args)

\* ------------------------------------------------------------------------
\* The backend's answers: response.data of the HTTP call
\* ------------------------------------------------------------------------
RespOk(d) == Obj(("success" :> Bool(TRUE)) @@ ("data" :> d))
RespNoData == Obj("success" :> Bool(TRUE))
RespFail == Obj(("success" :> Bool(FALSE)) @@ ("error" :> Str(<<"backend error">>)))
\* The payload the backend sends to caller t
RespData(t) == IF t = "t1" THEN D1 ELSE D2
Responses(t) == {RespOk(RespData(t)), RespNoData, RespFail}

\* Variant: the guard of the cache write dropped
ShouldStore_always(resp) == TRUE

\* if (apiResponse.success && apiResponse.data)
ShouldStore(resp) ==
  ToBoolean(GetProp(resp, "success")) /\ ToBoolean(GetProp(resp, "data"))

\* The envelope built on a cache hit
CacheEnvelope(cachedData) ==
  Obj(("success" :> Bool(TRUE)) @@ ("data" :> GetProp(cachedData, "data"))
      @@ ("fromCache" :> Bool(TRUE))
      @@ ("cachedAt" :> GetProp(cachedData, "timestamp"))
      @@ ("lastUpdated" :> GetProp(cachedData, "lastUpdated")))

\* ------------------------------------------------------------------------
\* State
\* ------------------------------------------------------------------------
VARIABLES
  platform,      \* "web" (Hosted) or "tauri" (Embedded)
  menu,          \* the fetch operations this behaviour exercises
  now,           \* Date.now()
  localStorage,  \* window.localStorage: physical key -> string
  tauriMem,      \* the Tauri store's content: physical key -> JSON value
  unsaved,       \* the store holds a set/delete that no save() has flushed
  initialized,   \* DataStorageTauri.initialized
  store,         \* DataStorageTauri.store
  task,          \* the asynchronous calls in flight, one record per caller
  bridge,        \* the host bridge: "absent" (its module cannot be imported),
                 \* "inert" (every invoke rejects), "empty" (config queries
                 \* answer []), "varying" (any answer)
  platformCache,        \* platform.ts: platformCache
  backendConfigsCache,  \* platform.ts: backendConfigsCache
  dbInstance,           \* db_factory.ts: dbInstance
  DB_KEYS_EXPORT,       \* db_factory.ts: DB_KEYS_EXPORT
  constructed,   \* how many DataStorageTauri objects getDb() has constructed
  call,          \* the calls of platform.ts / db_factory.ts functions in flight
  env,           \* process.env: NEXT_PUBLIC_NSE_API_PORT, NEXT_PUBLIC_MCX_API_PORT
  isTauriSync,   \* platform.ts: isTauriSync
  built,         \* the key-builder calls made: arguments and the key yielded
  aged,          \* the getDataAge calls made: arguments, clock and the string
  decided        \* the shouldRunWorkflow evaluation made: instant, schedule, result

vars ==
  <<platform, menu, now, localStorage, tauriMem, unsaved, initialized, store, task,
    bridge, platformCache, backendConfigsCache, dbInstance, DB_KEYS_EXPORT,
    constructed, call, env, isTauriSync, built, aged, decided>>

\* Everything but the records of the calls of pure functions
ProgramVars ==
  <<platform, menu, now, localStorage, tauriMem, unsaved, initialized, store, task,
    bridge, platformCache, backendConfigsCache, dbInstance, DB_KEYS_EXPORT,
    constructed, call, env, isTauriSync>>

\* The records of the calls of pure functions
PureVars == <<built, aged, decided>>

\* The state of platform.ts and db_factory.ts
FactoryVars ==
  <<bridge, platformCache, backendConfigsCache, dbInstance, DB_KEYS_EXPORT,
    constructed, call, env, isTauriSync, PureVars>>

NotRun == [t |-> "notrun"]
Thrown(e) == [t |-> "thrown", e |-> e]
NoRet == [st |-> "none"]
Ok(v) == [st |-> "ok", v |-> v]
Throw(e) == [st |-> "throw", e |-> e]
Handle == [t |-> "object", rid |-> 1]

IdleTask ==
  [pc |-> "idle", kind |-> "none", op |-> "none", db |-> "none", sop |-> "none",
   force |-> FALSE, key |-> Undefined, arg |-> Undefined, cached |-> NotRun,
   resp |-> NotRun, stored |-> Undefined, keysToDelete |-> <<>>, todo |-> <<>>,
   ret |-> NoRet]

Done(tk, res) == [tk EXCEPT !.pc = "done", !.sop = "none", !.ret = res]

\* Variant: the fetch operations catch a failed cache write and go on
Resume_ignoreStoreError(tk, res) ==
  CASE tk.kind = "fetch" /\ tk.sop = "getData" ->
         IF res.st = "throw" THEN Done(tk, res)
         ELSE IF ToBoolean(res.v)
           THEN Done([tk EXCEPT !.cached = res.v], Ok(CacheEnvelope(res.v)))
           ELSE [tk EXCEPT !.cached = res.v, !.pc = "remote", !.sop = "none"]
    [] tk.kind = "fetch" /\ tk.sop = "storeData" -> Done(tk, Ok(tk.resp))
    [] tk.kind = "hasData" ->
         IF res.st = "throw" THEN Done(tk, Ok(Bool(FALSE)))
         ELSE Done([tk EXCEPT !.cached = res.v], Ok(Bool(res.v # Null)))
    [] OTHER -> Done(tk, res)

\* The caller's continuation once the store method it awaits has settled
\* with `res`: the rest of the fetch operation, of hasData, or the return
\* of a direct call.
Resume(tk, res) ==
  CASE tk.kind = "fetch" /\ tk.sop = "getData" ->
         IF res.st = "throw" THEN Done(tk, res)
         ELSE IF ToBoolean(res.v)
           THEN Done([tk EXCEPT !.cached = res.v], Ok(CacheEnvelope(res.v)))
           ELSE [tk EXCEPT !.cached = res.v, !.pc = "remote", !.sop = "none"]
    [] tk.kind = "fetch" /\ tk.sop = "storeData" ->
         IF res.st = "throw" THEN Done(tk, res) ELSE Done(tk, Ok(tk.resp))
    [] tk.kind = "hasData" ->
         IF res.st = "throw" THEN Done(tk, Ok(Bool(FALSE)))
         ELSE Done([tk EXCEPT !.cached = res.v], Ok(Bool(res.v # Null)))
    [] OTHER -> Done(tk, res)

\* ------------------------------------------------------------------------
\* Calling a store method.  DataStorage's methods run to completion in the
\* caller's turn (localStorage is synchronous); DataStorageTauri's methods
\* suspend at init() and at every bridge call.
\* ------------------------------------------------------------------------
SetTask(t, tk) == task' = [task EXCEPT ![t] = tk]

TauriVars == <<tauriMem, unsaved, initialized, store>>

DataStorage_call(t, tk) ==
  /\ tk.db = "web"
  /\ UNCHANGED TauriVars
  /\ \/ /\ tk.sop = "getData"
        /\ SetTask(t, Resume(tk, Ok(DataStorage_getData(localStorage, tk.key))))
        /\ UNCHANGED localStorage
     \/ /\ tk.sop = "storeData"
        /\ LET tk2 == [tk EXCEPT !.stored = StoredData(tk.arg, now)] IN
           \/ /\ localStorage' = DataStorage_storeData(localStorage, tk.key, tk.arg, now)
              /\ SetTask(t, Resume(tk2, Ok(Undefined)))
           \/ /\ UNCHANGED localStorage   \* setItem throws (quota exceeded)
              /\ SetTask(t, Resume(tk2, Throw("QuotaExceededError")))
     \/ /\ tk.sop = "clearData"
        /\ localStorage' = DataStorage_clearData(localStorage, tk.key)
        /\ SetTask(t, Resume(tk, Ok(Undefined)))
     \/ /\ tk.sop = "clearAllData"
        /\ localStorage' = DataStorage_clearAllData(localStorage)
        /\ SetTask(t, Resume([tk EXCEPT !.keysToDelete =
                                          SetToSeq(PrefixedKeys(localStorage))],
                              Ok(Undefined)))

DataStorageTauri_call(t, tk) ==
  /\ tk.db = "tauri"
  /\ SetTask(t, [tk EXCEPT !.pc = "init"])
  /\ UNCHANGED <<localStorage, TauriVars>>

CallStore(t, tk) == DataStorage_call(t, tk) \/ DataStorageTauri_call(t, tk)

\* The method body after `await this.init()`, with `st` the value of
\* this.store: the first bridge call is issued, or the `else` branch throws
\* (inside try: getData answers null, the others rethrow).
TauriBody(tk, st) ==
  IF st = Null
    THEN Resume(tk, IF tk.sop = "getData" THEN Ok(Null)
                    ELSE Throw("Tauri store not initialized"))
  ELSE CASE tk.sop = "storeData" ->
              [tk EXCEPT !.pc = "set", !.stored = StoredData(tk.arg, now)]
         [] tk.sop = "getData" -> [tk EXCEPT !.pc = "get"]
         [] tk.sop = "clearData" -> [tk EXCEPT !.pc = "delete"]
         [] tk.sop = "clearAllData" -> [tk EXCEPT !.pc = "keys"]

\* init(): returns at once when initialized, else awaits import and load
TauriInit(t) ==
  /\ task[t].pc = "init"
  /\ SetTask(t, IF initialized THEN TauriBody(task[t], store)
                ELSE [task[t] EXCEPT !.pc = "load"])
  /\ UNCHANGED <<FactoryVars, platform, menu, now, localStorage, TauriVars>>

\* load('nse-options-store.bin') resolves with the handle of the store
TauriLoadOk(t) ==
  /\ task[t].pc = "load"
  /\ store' = Handle
  /\ initialized' = TRUE
  /\ SetTask(t, TauriBody(task[t], Handle))
  /\ UNCHANGED <<FactoryVars, platform, menu, now, localStorage, tauriMem, unsaved>>

\* import or load rejects: init() rethrows, outside the method's try block
TauriLoadFail(t) ==
  /\ task[t].pc = "load"
  /\ SetTask(t, Resume(task[t], Throw("StoreLoadError")))
  /\ UNCHANGED <<FactoryVars, platform, menu, now, localStorage, TauriVars>>

TauriGet(t) ==
  /\ task[t].pc = "get"
  /\ \E v \in StoreGetOutcomes(tauriMem, FullKey(task[t].key)) :
       SetTask(t, Resume(task[t], Ok(v)))
  /\ UNCHANGED <<FactoryVars, platform, menu, now, localStorage, TauriVars>>

\* store.set(fullKey, storedData): the value crosses the bridge as JSON
TauriSet(t) ==
  /\ task[t].pc = "set"
  /\ tauriMem' = setItem(tauriMem, FullKey(task[t].key), ToJSON(task[t].stored))
  /\ unsaved' = TRUE
  /\ SetTask(t, [task[t] EXCEPT !.pc = "save"])
  /\ UNCHANGED <<FactoryVars, platform, menu, now, localStorage, initialized, store>>

\* Variant: clearData returns once delete() has resolved
TauriDelete_noSave(t) ==
  /\ task[t].pc = "delete"
  /\ tauriMem' = removeItem(tauriMem, FullKey(task[t].key))
  /\ unsaved' = TRUE
  /\ SetTask(t, Resume(task[t], Ok(Undefined)))
  /\ UNCHANGED <<FactoryVars, platform, menu, now, localStorage, initialized, store>>

TauriDelete(t) ==
  /\ task[t].pc = "delete"
  /\ tauriMem' = removeItem(tauriMem, FullKey(task[t].key))
  /\ unsaved' = TRUE
  /\ SetTask(t, [task[t] EXCEPT !.pc = "save"])
  /\ UNCHANGED <<FactoryVars, platform, menu, now, localStorage, initialized, store>>

\* store.keys() and the filter on the prefix
TauriKeys(t) ==
  /\ task[t].pc = "keys"
  /\ LET keysToDelete == SetToSeq(PrefixedKeys(tauriMem)) IN
     SetTask(t, [task[t] EXCEPT !.keysToDelete = keysToDelete,
                                !.todo = keysToDelete,
                                !.pc = IF keysToDelete = <<>> THEN "save"
                                       ELSE "delete_all"])
  /\ UNCHANGED <<FactoryVars, platform, menu, now, localStorage, TauriVars>>

\* one iteration of `for (const key of keysToDelete) await store.delete(key)`
TauriDeleteNext(t) ==
  /\ task[t].pc = "delete_all"
  /\ tauriMem' = removeItem(tauriMem, Head(task[t].todo))
  /\ SetTask(t, [task[t] EXCEPT !.todo = Tail(@),
                                !.pc = IF Tail(task[t].todo) = <<>> THEN "save"
                                       ELSE "delete_all"])
  /\ unsaved' = TRUE
  /\ UNCHANGED <<FactoryVars, platform, menu, now, localStorage, initialized, store>>

\* store.save(): the store is written to its file
TauriSave(t) ==
  /\ task[t].pc = "save"
  /\ unsaved' = FALSE
  /\ SetTask(t, Resume(task[t], Ok(Undefined)))
  /\ UNCHANGED <<FactoryVars, platform, menu, now, localStorage, tauriMem, initialized, store>>

\* Variant: a rejected bridge call of storeData is attempted again
TauriReject_retry(t) ==
  /\ task[t].pc \in {"get", "set", "delete", "keys", "delete_all", "save"}
  /\ SetTask(t, IF task[t].sop = "storeData" THEN [task[t] EXCEPT !.pc = "set"]
                ELSE Resume(task[t], IF task[t].sop = "getData" THEN Ok(Null)
                                     ELSE Throw("StoreError")))
  /\ UNCHANGED <<FactoryVars, platform, menu, now, localStorage, TauriVars>>

\* A bridge call rejects: getData's catch answers null, the others rethrow
TauriReject(t) ==
  /\ task[t].pc \in {"get", "set", "delete", "keys", "delete_all", "save"}
  /\ SetTask(t, Resume(task[t], IF task[t].sop = "getData" THEN Ok(Null)
                                ELSE Throw("StoreError")))
  /\ UNCHANGED <<FactoryVars, platform, menu, now, localStorage, TauriVars>>

\* ------------------------------------------------------------------------
\* The cached-fetch idiom (every get* operation of the two clients)
\* ------------------------------------------------------------------------
FetchTask(op, force) ==
  [IdleTask EXCEPT !.kind = "fetch", !.op = op.name, !.db = OpDb(op, platform),
                   !.force = force, !.key = OpKey(op, platform)]

\* From the call to the first suspension: the key is built, and unless
\* forceRefresh the cache is consulted.
FetchBegin(t) ==
  /\ task[t].pc = "idle"
  /\ \E op \in menu, force \in BOOLEAN :
       LET tk == FetchTask(op, force) IN
       IF tk.key = TypeErr
         THEN /\ SetTask(t, Done(tk, Throw("TypeError")))
              /\ UNCHANGED <<localStorage, TauriVars>>
       ELSE IF force
         THEN /\ SetTask(t, [tk EXCEPT !.pc = "remote"])
              /\ UNCHANGED <<localStorage, TauriVars>>
       ELSE CallStore(t, [tk EXCEPT !.sop = "getData"])
  /\ UNCHANGED <<FactoryVars, platform, menu, now>>

\* Variant: a caller whose answer arrives when the slot is already filled
\* keeps the entry that is there
FetchRespond_firstWins(t) ==
  /\ task[t].pc = "remote"
  /\ \E resp \in Responses(t) :
       LET tk == [task[t] EXCEPT !.resp = resp] IN
       IF ShouldStore(resp)
            /\ FullKey(tk.key) \notin DOMAIN (IF tk.db = "web" THEN localStorage ELSE tauriMem)
         THEN CallStore(t, [tk EXCEPT !.sop = "storeData",
                                      !.arg = GetProp(resp, "data")])
         ELSE /\ SetTask(t, Done(tk, Ok(resp)))
              /\ UNCHANGED <<localStorage, TauriVars>>
  /\ UNCHANGED <<FactoryVars, platform, menu, now>>

\* The HTTP call resolves with the backend's envelope
FetchRespond(t) ==
  /\ task[t].pc = "remote"
  /\ \E resp \in Responses(t) :
       LET tk == [task[t] EXCEPT !.resp = resp] IN
       IF ShouldStore(resp)
         THEN CallStore(t, [tk EXCEPT !.sop = "storeData",
                                      !.arg = GetProp(resp, "data")])
         ELSE /\ SetTask(t, Done(tk, Ok(resp)))
              /\ UNCHANGED <<localStorage, TauriVars>>
  /\ UNCHANGED <<FactoryVars, platform, menu, now>>

\* The HTTP call rejects (transport error): caught, logged and rethrown
FetchThrow(t) ==
  /\ task[t].pc = "remote"
  /\ SetTask(t, Done([task[t] EXCEPT !.resp = Thrown("NetworkError")],
                     Throw("NetworkError")))
  /\ UNCHANGED <<FactoryVars, platform, menu, now, localStorage, TauriVars>>

\* hasSecurities, hasContractInfo, ..., hasTickers, ...: db.hasData(key)
HasBegin(t) ==
  /\ task[t].pc = "idle"
  /\ \E op \in menu :
       LET tk == [FetchTask(op, FALSE) EXCEPT !.kind = "hasData"] IN
       IF tk.key = TypeErr
         THEN /\ SetTask(t, Done(tk, Throw("TypeError")))
              /\ UNCHANGED <<localStorage, TauriVars>>
         ELSE CallStore(t, [tk EXCEPT !.sop = "getData"])
  /\ UNCHANGED <<FactoryVars, platform, menu, now>>

\* handleClearAllCache of the batch page: db.clearAllData() on db.ts's db
PageClearAll(t) ==
  /\ task[t].pc = "idle"
  /\ CallStore(t, [IdleTask EXCEPT !.kind = "clearAllData", !.db = "web",
                                   !.sop = "clearAllData"])
  /\ UNCHANGED <<FactoryVars, platform, menu, now>>

\* The caller has consumed the result
Return(t) ==
  /\ task[t].pc = "done"
  /\ SetTask(t, IdleTask)
  /\ UNCHANGED <<FactoryVars, platform, menu, now, localStorage, TauriVars>>

\* Variant: entries expire as time passes
Tick_expire ==
  /\ now < MaxClock
  /\ now' = now + 1
  /\ localStorage' = DataStorage_clearAllData(localStorage)
  /\ tauriMem' = DataStorage_clearAllData(tauriMem)
  /\ UNCHANGED <<FactoryVars, platform, menu, unsaved, initialized, store, task>>

Tick ==
  /\ now < MaxClock
  /\ now' = now + 1
  /\ UNCHANGED <<FactoryVars, platform, menu, localStorage, TauriVars, task>>

\* ------------------------------------------------------------------------
\* Direct calls of the stores' public methods (IDataStorage)
\* ------------------------------------------------------------------------
\* K1 is the key the calls address; K2 is another key of the namespace,
\* which the calls never name.
K1 == Str(KeyString("SECURITIES_LIST", <<>>))
K2 == Str(KeyString("CONTRACT_INFO", <<Symbol>>))

\* The store under test: the class getDb() selects on this platform
Backends == {platform}

StoreCall(t) ==
  /\ task[t].pc = "idle"
  /\ \E db \in Backends :
       LET tk == [IdleTask EXCEPT !.db = db, !.key = K1] IN
       \/ \E v \in DataVals :
            CallStore(t, [tk EXCEPT !.kind = "storeData", !.sop = "storeData",
                                    !.arg = v])
       \/ CallStore(t, [tk EXCEPT !.kind = "getData", !.sop = "getData"])
       \/ CallStore(t, [tk EXCEPT !.kind = "hasData", !.sop = "getData"])
       \/ CallStore(t, [tk EXCEPT !.kind = "clearData", !.sop = "clearData"])
       \/ CallStore(t, [tk EXCEPT !.kind = "clearAllData", !.sop = "clearAllData",
                                  !.key = Undefined])
  /\ UNCHANGED <<FactoryVars, platform, menu, now>>

\* ------------------------------------------------------------------------
\* Initial states.  Both media outlive the process and localStorage is
\* shared by everything served from the origin, so a run starts from what
\* earlier sessions and other code left there: foreign keys, and possibly
\* one slot of the namespace that holds an older entry or a damaged value.
\* ------------------------------------------------------------------------
ForeignLs ==
  (<<"theme">> :> RawText(<<"dark">>))
    @@ (<<"nse-options-db", "-v2:", "x">> :> RawText(<<"1">>))

ForeignStore == (<<"window-state">> :> Obj("width" :> Num(800)))

WebSeedValues ==
  { JSONstringify(StoredData(D0, 0)), RawText(<<"garbage">>),
    JsonText(Obj(<<>>)), JsonText(Num(0)), JsonText(Null) }

TauriSeedValues == { ToJSON(StoredData(D0, 0)), Obj(<<>>), Num(0), Null }

Seeds(webKeys, tauriKeys) ==
  {[ls |-> ForeignLs, mem |-> ForeignStore]}
    \cup {[ls |-> setItem(ForeignLs, FullKey(k), v), mem |-> ForeignStore] :
            k \in webKeys, v \in WebSeedValues}
    \cup {[ls |-> ForeignLs, mem |-> setItem(ForeignStore, FullKey(k), v)] :
            k \in tauriKeys, v \in TauriSeedValues}

MenuKeys(m, pf, db) == {OpKey(op, pf) : op \in {o \in m : OpDb(o, pf) = db}} \ {TypeErr}

\* Two calls of a pure function are recorded, to be compared
Calls == {"first", "second"}

\* A caller of platform.ts / db_factory.ts that is not in a call
IdleCall ==
  [pc |-> "idle", fn |-> "none", exchange |-> "none", retries |-> 0, queries |-> 0,
   info |-> Null, configs |-> Null, reported |-> NotRun, atStart |-> Null,
   ret |-> NoRet]

\* process.env without the two port variables
NoEnv == [nse |-> Undefined, mcx |-> Undefined]

\* Module state of platform.ts and db_factory.ts when the modules load
FactoryInit ==
  /\ platformCache = Null
  /\ backendConfigsCache = Null
  /\ dbInstance = Null
  /\ DB_KEYS_EXPORT = Null
  /\ constructed = 0
  /\ call = [t \in Tasks |-> IdleCall]
  /\ env = NoEnv
  /\ isTauriSync = Null
  /\ built = [i \in Calls |-> NotRun]
  /\ aged = [i \in Calls |-> NotRun]
  /\ decided = NotRun

InitCommon ==
  /\ platform \in {"web", "tauri"}
  /\ now = 1
  /\ unsaved = FALSE
  /\ initialized = FALSE
  /\ store = Null
  /\ task = [t \in Tasks |-> IdleTask]
  /\ bridge = (IF platform = "web" THEN "absent" ELSE "varying")
  /\ FactoryInit

\* The client program: the pages call the two API clients
Init ==
  /\ InitCommon
  /\ menu \in Menus(platform)
  /\ \E seed \in Seeds(MenuKeys(menu, platform, "web"),
                       MenuKeys(menu, platform, "tauri")) :
       /\ localStorage = seed.ls
       /\ tauriMem = seed.mem

Next ==
  \/ \E t \in Tasks : FetchBegin(t)
  \/ \E t \in Tasks : FetchRespond(t)
  \/ \E t \in Tasks : FetchThrow(t)
  \/ \E t \in Tasks : HasBegin(t)
  \/ \E t \in Tasks : PageClearAll(t)
  \/ \E t \in Tasks : TauriInit(t)
  \/ \E t \in Tasks : TauriLoadOk(t)
  \/ \E t \in Tasks : TauriLoadFail(t)
  \/ \E t \in Tasks : TauriGet(t)
  \/ \E t \in Tasks : TauriSet(t)
  \/ \E t \in Tasks : TauriSave(t)
  \/ \E t \in Tasks : TauriReject(t)
  \/ \E t \in Tasks : Return(t)
  \/ Tick

Spec == Init /\ [][Next]_vars

\* The store classes driven through their public methods
StoreInit ==
  /\ InitCommon
  /\ menu = {}
  /\ \E seed \in Seeds({K1}, {K1}), other \in BOOLEAN :
       /\ localStorage =
            IF other THEN setItem(seed.ls, FullKey(K2), JSONstringify(StoredData(D0, 0)))
            ELSE seed.ls
       /\ tauriMem =
            IF other THEN setItem(seed.mem, FullKey(K2), ToJSON(StoredData(D0, 0)))
            ELSE seed.mem

StoreNext ==
  \/ \E t \in Tasks : StoreCall(t)
  \/ \E t \in Tasks : TauriInit(t)
  \/ \E t \in Tasks : TauriLoadOk(t)
  \/ \E t \in Tasks : TauriLoadFail(t)
  \/ \E t \in Tasks : TauriGet(t)
  \/ \E t \in Tasks : TauriSet(t)
  \/ \E t \in Tasks : TauriDelete(t)
  \/ \E t \in Tasks : TauriKeys(t)
  \/ \E t \in Tasks : TauriDeleteNext(t)
  \/ \E t \in Tasks : TauriSave(t)
  \/ \E t \in Tasks : TauriReject(t)
  \/ \E t \in Tasks : Return(t)
  \/ Tick

StoreSpec == StoreInit /\ [][StoreNext]_vars

\* The same, with a single caller: every call runs to completion before
\* the next one starts
SeqStoreNext ==
  \/ StoreCall("t1")
  \/ TauriInit("t1")
  \/ TauriLoadOk("t1")
  \/ TauriLoadFail("t1")
  \/ TauriGet("t1")
  \/ TauriSet("t1")
  \/ TauriDelete("t1")
  \/ TauriKeys("t1")
  \/ TauriDeleteNext("t1")
  \/ TauriSave("t1")
  \/ TauriReject("t1")
  \/ Return("t1")
  \/ Tick

SeqStoreSpec == StoreInit /\ [][SeqStoreNext]_vars


\* ------------------------------------------------------------------------
\* platform.ts and db_factory.ts: platform detection, the store factory and
\* backend discovery.  Every `await` is a point where another caller runs.
\* ------------------------------------------------------------------------
PlatformInfo(is_tauri, pf) ==
  Obj(("is_tauri" :> Bool(is_tauri)) @@ ("platform" :> Str(<<pf>>)))

\* The value of getPlatformInfo's catch block
Hosted == PlatformInfo(FALSE, "web")

\* What the host's get_platform_info command reports
Reported == PlatformInfo(TRUE, "linux")

\* The objects getDb() can hand out: the `db` exported by db.ts, or the
\* n-th DataStorageTauri it constructed
WebInstance == [t |-> "object", cls |-> "DataStorage", id |-> 0]
TauriInstance(n) == [t |-> "object", cls |-> "DataStorageTauri", id |-> n]

\* What platform.ts and db_factory.ts never assign
ClientVars == <<platform, menu, now, localStorage, TauriVars, task, env, PureVars>>

SetCall(t, ck) == call' = [call EXCEPT ![t] = ck]

DoneCall(ck, res) == [ck EXCEPT !.pc = "done", !.ret = res]

\* getPlatformInfo() has produced `info` for the function that awaited it
PiResolved(ck, info) ==
  CASE ck.fn = "getDb" -> [ck EXCEPT !.pc = "gd_import", !.info = info]
    [] ck.fn \in {"initPlatform", "getApiBaseUrl"} ->
         [ck EXCEPT !.pc = "pi_done", !.info = info]
    [] OTHER -> DoneCall(ck, Ok(info))

\* getPlatformInfo() up to its first await: the memoized value, or the
\* dynamic import of the bridge module
PiEnter(ck) ==
  IF ToBoolean(platformCache) THEN PiResolved(ck, platformCache)
  ELSE [ck EXCEPT !.pc = "pi_import"]

CallGetPlatformInfo(t) ==
  /\ call[t].pc = "idle"
  /\ SetCall(t, PiEnter([IdleCall EXCEPT !.fn = "getPlatformInfo",
                                         !.atStart = platformCache]))
  /\ UNCHANGED <<ClientVars, bridge, platformCache, backendConfigsCache,
                 dbInstance, DB_KEYS_EXPORT, constructed, isTauriSync>>

\* import('@tauri-apps/api/core') resolves; invoke('get_platform_info') is
\* issued
PiImportOk(t) ==
  /\ call[t].pc = "pi_import"
  /\ bridge # "absent"
  /\ SetCall(t, [call[t] EXCEPT !.pc = "pi_invoke", !.queries = @ + 1])
  /\ UNCHANGED <<ClientVars, bridge, platformCache, backendConfigsCache,
                 dbInstance, DB_KEYS_EXPORT, constructed, isTauriSync>>

\* The import rejects (no bridge module): the catch block answers Hosted
PiImportFail(t) ==
  /\ call[t].pc = "pi_import"
  /\ bridge = "absent"
  /\ platformCache' = Hosted
  /\ SetCall(t, PiResolved(call[t], platformCache'))
  /\ UNCHANGED <<ClientVars, bridge, backendConfigsCache, dbInstance,
                 DB_KEYS_EXPORT, constructed, isTauriSync>>

\* The probe resolves with the host's report
PiInvokeOk(t) ==
  /\ call[t].pc = "pi_invoke"
  /\ bridge \in {"empty", "varying"}
  /\ platformCache' = Reported
  /\ SetCall(t, PiResolved([call[t] EXCEPT !.reported = Reported], platformCache'))
  /\ UNCHANGED <<ClientVars, bridge, backendConfigsCache, dbInstance,
                 DB_KEYS_EXPORT, constructed, isTauriSync>>

\* Variant: a rejected probe is handed to the caller
PiInvokeFail_rethrow(t) ==
  /\ call[t].pc = "pi_invoke"
  /\ SetCall(t, DoneCall([call[t] EXCEPT !.reported = Thrown("invoke")],
                         Throw("invoke")))
  /\ UNCHANGED <<ClientVars, bridge, platformCache, backendConfigsCache,
                 dbInstance, DB_KEYS_EXPORT, constructed, isTauriSync>>

\* The probe rejects: the catch block answers Hosted
PiInvokeFail(t) ==
  /\ call[t].pc = "pi_invoke"
  /\ platformCache' = Hosted
  /\ SetCall(t, PiResolved([call[t] EXCEPT !.reported = Thrown("invoke")],
                           platformCache'))
  /\ UNCHANGED <<ClientVars, bridge, backendConfigsCache, dbInstance,
                 DB_KEYS_EXPORT, constructed, isTauriSync>>

\* getDb() up to its first await: the memoized pair, or isTauriPlatform()
CallGetDb(t) ==
  /\ call[t].pc = "idle"
  /\ LET ck == [IdleCall EXCEPT !.fn = "getDb", !.atStart = dbInstance] IN
     SetCall(t, IF ToBoolean(dbInstance) /\ ToBoolean(DB_KEYS_EXPORT)
                  THEN DoneCall(ck, Ok([db |-> dbInstance, DB_KEYS |-> DB_KEYS_EXPORT]))
                  ELSE PiEnter(ck))
  /\ UNCHANGED <<ClientVars, bridge, platformCache, backendConfigsCache,
                 dbInstance, DB_KEYS_EXPORT, constructed, isTauriSync>>

\* The import of ./db_tauri or ./db resolves: the module variables are
\* assigned and the pair is returned
GdConstruct(t) ==
  /\ call[t].pc = "gd_import"
  /\ IF ToBoolean(GetProp(call[t].info, "is_tauri"))
       THEN /\ constructed' = constructed + 1
            /\ dbInstance' = TauriInstance(constructed')
            /\ DB_KEYS_EXPORT' = Str(<<"db_tauri">>)
       ELSE /\ constructed' = constructed
            /\ dbInstance' = WebInstance
            /\ DB_KEYS_EXPORT' = Str(<<"db">>)
  /\ SetCall(t, DoneCall(call[t], Ok([db |-> dbInstance', DB_KEYS |-> DB_KEYS_EXPORT'])))
  /\ UNCHANGED <<ClientVars, bridge, platformCache, backendConfigsCache, isTauriSync>>

\* The caller has consumed the result
CallReturn(t) ==
  /\ call[t].pc = "done"
  /\ SetCall(t, IdleCall)
  /\ UNCHANGED <<ClientVars, bridge, platformCache, backendConfigsCache,
                 dbInstance, DB_KEYS_EXPORT, constructed, isTauriSync>>

\* ------------------------------------------------------------------------
\* Backend discovery: getBackendConfigs()
\* ------------------------------------------------------------------------
\* let retries = 10
MaxRetries == 10

BackendConfig(exchange, port, health_path) ==
  Obj(("exchange" :> Str(<<exchange>>)) @@ ("port" :> Str(<<port>>))
      @@ ("health_path" :> Str(<<health_path>>)))

\* A JavaScript array
Arr(items) == [t |-> "array", items |-> items]

\* Variant: a default list that names nse twice
DefaultConfigs_twoNse ==
  Arr(<< BackendConfig("nse", "3001", "/nse_health"),
         BackendConfig("nse", "3002", "/mcx_health") >>)

\* The static list of the outer catch block
DefaultConfigs ==
  Arr(<< BackendConfig("nse", "3001", "/nse_health"),
         BackendConfig("mcx", "3002", "/mcx_health") >>)

\* Non-empty lists the host may report while its backends come up
ConfigsOne == Arr(<< BackendConfig("nse", "4001", "/nse_health") >>)
ConfigsBoth ==
  Arr(<< BackendConfig("nse", "4001", "/nse_health"),
         BackendConfig("mcx", "4002", "/mcx_health") >>)

\* What one invoke('get_backend_configs') can settle with
BridgeAnswers ==
  CASE bridge = "empty" -> {Ok(Arr(<<>>))}
    [] bridge = "varying" ->
         {Ok(Arr(<<>>)), Ok(ConfigsOne), Ok(ConfigsBoth), Throw("invoke")}
    [] OTHER -> {Throw("invoke")}

\* Variant: the length test dropped
Accepted_anyList(ans) == ans.st = "ok" /\ ToBoolean(ans.v)

\* if (configs && configs.length > 0)
Accepted(ans) == ans.st = "ok" /\ ToBoolean(ans.v) /\ Len(ans.v.items) > 0

\* The string `http://localhost:${port}`
LocalUrl(port) == Str(<<"http://localhost:">> \o ToStr(port))

\* defaultPorts[exchange]: process.env.NEXT_PUBLIC_<X>_API_PORT || '3001' / '3002'
DefaultPort(exchange) ==
  IF ToBoolean(env[exchange]) THEN env[exchange]
  ELSE IF exchange = "nse" THEN Str(<<"3001">>) ELSE Str(<<"3002">>)

\* Variant: the first descriptor is taken whatever its exchange
Find_first(configs, exchange) ==
  IF Len(configs.items) = 0 THEN Undefined ELSE configs.items[1]

\* configs.find(c => c.exchange === exchange): the first match or undefined
Find(configs, exchange) ==
  LET hits == {i \in 1..Len(configs.items) :
                 GetProp(configs.items[i], "exchange") = Str(<<exchange>>)} IN
  IF hits = {} THEN Undefined
  ELSE configs.items[CHOOSE i \in hits : \A j \in hits : i <= j]

\* getApiBaseUrl from `const config = ...find(...)` to its return
UrlOf(configs, exchange) ==
  LET config == Find(configs, exchange) IN
  IF ToBoolean(config) THEN LocalUrl(GetProp(config, "port"))
  ELSE LocalUrl(DefaultPort(exchange))

\* getBackendConfigs() has produced `configs` for the function that
\* awaited it
BcResolved(ck, configs) ==
  CASE ck.fn = "initPlatform" ->
         DoneCall([ck EXCEPT !.configs = configs], Ok(Undefined))
    [] ck.fn = "getApiBaseUrl" ->
         DoneCall([ck EXCEPT !.configs = configs], Ok(UrlOf(configs, ck.exchange)))
    [] OTHER -> DoneCall(ck, Ok(configs))

\* getBackendConfigs() up to its first await
BcEnter(ck) ==
  IF ToBoolean(backendConfigsCache) THEN BcResolved(ck, backendConfigsCache)
  ELSE [ck EXCEPT !.pc = "bc_import"]

\* The outer catch block: the default list is memoized and returned
Fallback(ck) == BcResolved(ck, DefaultConfigs)

CallGetBackendConfigs(t) ==
  /\ call[t].pc = "idle"
  /\ LET ck == [IdleCall EXCEPT !.fn = "getBackendConfigs",
                                !.atStart = backendConfigsCache] IN
     SetCall(t, BcEnter(ck))
  /\ UNCHANGED <<ClientVars, bridge, platformCache, backendConfigsCache,
                 dbInstance, DB_KEYS_EXPORT, constructed, isTauriSync>>

\* The import resolves: the retry loop starts and issues its first query
BcImportOk(t) ==
  /\ call[t].pc = "bc_import"
  /\ bridge # "absent"
  /\ SetCall(t, [call[t] EXCEPT !.pc = "bc_invoke", !.retries = MaxRetries,
                                !.queries = 1])
  /\ UNCHANGED <<ClientVars, bridge, platformCache, backendConfigsCache,
                 dbInstance, DB_KEYS_EXPORT, constructed, isTauriSync>>

\* The import rejects: straight to the outer catch block
BcImportFail(t) ==
  /\ call[t].pc = "bc_import"
  /\ bridge = "absent"
  /\ backendConfigsCache' = DefaultConfigs
  /\ SetCall(t, Fallback(call[t]))
  /\ UNCHANGED <<ClientVars, bridge, platformCache, dbInstance, DB_KEYS_EXPORT,
                 constructed, isTauriSync>>

\* Variant: no inner catch block, a rejected query lands in the outer one
BcInvoke_noInnerCatch(t) ==
  /\ call[t].pc = "bc_invoke"
  /\ \E ans \in BridgeAnswers :
       IF Accepted(ans)
         THEN /\ backendConfigsCache' = ans.v
              /\ SetCall(t, BcResolved([call[t] EXCEPT !.reported = ans], ans.v))
         ELSE IF ans.st = "throw"
           THEN /\ backendConfigsCache' = DefaultConfigs
                /\ SetCall(t, Fallback([call[t] EXCEPT !.reported = ans]))
           ELSE /\ backendConfigsCache' = backendConfigsCache
                /\ SetCall(t, [call[t] EXCEPT !.pc = "bc_sleep", !.reported = ans])
  /\ UNCHANGED <<ClientVars, bridge, platformCache, dbInstance, DB_KEYS_EXPORT,
                 constructed, isTauriSync>>

\* The query in flight settles: a non-empty list is memoized and returned;
\* an empty list or a rejection leads to the one-second sleep
BcInvoke(t) ==
  /\ call[t].pc = "bc_invoke"
  /\ \E ans \in BridgeAnswers :
       IF Accepted(ans)
         THEN /\ backendConfigsCache' = ans.v
              /\ SetCall(t, BcResolved([call[t] EXCEPT !.reported = ans], ans.v))
         ELSE /\ backendConfigsCache' = backendConfigsCache
              /\ SetCall(t, [call[t] EXCEPT !.pc = "bc_sleep", !.reported = ans])
  /\ UNCHANGED <<ClientVars, bridge, platformCache, dbInstance, DB_KEYS_EXPORT,
                 constructed, isTauriSync>>

\* Variant: the sleep is followed by the next query and retries is left alone
BcSleep_noDecrement(t) ==
  /\ call[t].pc = "bc_sleep"
  /\ SetCall(t, [call[t] EXCEPT !.pc = "bc_invoke"])
  /\ backendConfigsCache' = backendConfigsCache
  /\ UNCHANGED <<ClientVars, bridge, platformCache, dbInstance, DB_KEYS_EXPORT,
                 constructed, isTauriSync>>

\* Variant: the loop runs while retries >= 0
BcSleep_oneMore(t) ==
  /\ call[t].pc = "bc_sleep"
  /\ LET retries == call[t].retries - 1 IN
     IF retries >= 0
       THEN /\ SetCall(t, [call[t] EXCEPT !.pc = "bc_invoke", !.retries = retries,
                                          !.queries = @ + 1])
            /\ backendConfigsCache' = backendConfigsCache
       ELSE /\ backendConfigsCache' = DefaultConfigs
            /\ SetCall(t, Fallback([call[t] EXCEPT !.retries = retries]))
  /\ UNCHANGED <<ClientVars, bridge, platformCache, dbInstance, DB_KEYS_EXPORT,
                 constructed, isTauriSync>>

\* The sleep is over: retries--, then the next query is issued, or the loop
\* ends and the throw lands in the outer catch block
BcSleep(t) ==
  /\ call[t].pc = "bc_sleep"
  /\ LET retries == call[t].retries - 1 IN
     IF retries > 0
       THEN /\ SetCall(t, [call[t] EXCEPT !.pc = "bc_invoke", !.retries = retries,
                                          !.queries = @ + 1])
            /\ backendConfigsCache' = backendConfigsCache
       ELSE /\ backendConfigsCache' = DefaultConfigs
            /\ SetCall(t, Fallback([call[t] EXCEPT !.retries = retries]))
  /\ UNCHANGED <<ClientVars, bridge, platformCache, dbInstance, DB_KEYS_EXPORT,
                 constructed, isTauriSync>>

DiscoverySpecInit ==
  /\ platform \in {"web", "tauri"}
  /\ menu = {}
  /\ now = 1
  /\ localStorage = ForeignLs
  /\ tauriMem = ForeignStore
  /\ unsaved = FALSE
  /\ initialized = FALSE
  /\ store = Null
  /\ task = [t \in Tasks |-> IdleTask]
  /\ bridge \in (IF platform = "web" THEN {"absent", "inert"} ELSE {"empty", "varying"})
  /\ FactoryInit

DiscoveryNext ==
  \/ \E t \in Tasks : CallGetBackendConfigs(t)
  \/ \E t \in Tasks : BcImportOk(t)
  \/ \E t \in Tasks : BcImportFail(t)
  \/ \E t \in Tasks : BcInvoke(t)
  \/ \E t \in Tasks : BcSleep(t)
  \/ \E t \in Tasks : CallReturn(t)

DiscoverySpec == DiscoverySpecInit /\ [][DiscoveryNext]_vars

\* ------------------------------------------------------------------------
\* initPlatform() and getApiBaseUrl(exchange)
\* ------------------------------------------------------------------------
Exchanges == {"nse", "mcx"}

CallInitPlatform(t) ==
  /\ call[t].pc = "idle"
  /\ SetCall(t, PiEnter([IdleCall EXCEPT !.fn = "initPlatform",
                                         !.atStart = platformCache]))
  /\ UNCHANGED <<ClientVars, bridge, platformCache, backendConfigsCache,
                 dbInstance, DB_KEYS_EXPORT, constructed, isTauriSync>>

\* initPlatform() after `await getPlatformInfo()`: isTauriSync is assigned,
\* and the descriptors are preloaded when the platform is Tauri
IpResume(t) ==
  /\ call[t].pc = "pi_done"
  /\ call[t].fn = "initPlatform"
  /\ isTauriSync' = GetProp(call[t].info, "is_tauri")
  /\ SetCall(t, IF ToBoolean(GetProp(call[t].info, "is_tauri"))
                  THEN BcEnter(call[t])
                  ELSE DoneCall(call[t], Ok(Undefined)))
  /\ UNCHANGED <<ClientVars, bridge, platformCache, backendConfigsCache,
                 dbInstance, DB_KEYS_EXPORT, constructed>>

CallGetApiBaseUrl(t) ==
  /\ call[t].pc = "idle"
  /\ \E exchange \in Exchanges :
       SetCall(t, PiEnter([IdleCall EXCEPT !.fn = "getApiBaseUrl",
                                           !.exchange = exchange,
                                           !.atStart = platformCache]))
  /\ UNCHANGED <<ClientVars, bridge, platformCache, backendConfigsCache,
                 dbInstance, DB_KEYS_EXPORT, constructed, isTauriSync>>

\* Variant: the descriptors are asked for on every platform
UrlResume_always(t) ==
  /\ call[t].pc = "pi_done"
  /\ call[t].fn = "getApiBaseUrl"
  /\ SetCall(t, BcEnter(call[t]))
  /\ UNCHANGED <<ClientVars, bridge, platformCache, backendConfigsCache,
                 dbInstance, DB_KEYS_EXPORT, constructed, isTauriSync>>

\* getApiBaseUrl() after `await getPlatformInfo()`: the descriptors are
\* asked for when the platform is Tauri, else the default port is used
UrlResume(t) ==
  /\ call[t].pc = "pi_done"
  /\ call[t].fn = "getApiBaseUrl"
  /\ SetCall(t, IF ToBoolean(GetProp(call[t].info, "is_tauri"))
                  THEN BcEnter(call[t])
                  ELSE DoneCall(call[t], Ok(LocalUrl(DefaultPort(call[t].exchange)))))
  /\ UNCHANGED <<ClientVars, bridge, platformCache, backendConfigsCache,
                 dbInstance, DB_KEYS_EXPORT, constructed, isTauriSync>>

\* Values of the two port variables of process.env
EnvPorts ==
  { NoEnv,
    [nse |-> Str(<<"5001">>), mcx |-> Str(<<>>)],
    [nse |-> Undefined, mcx |-> Str(<<"5002">>)] }

\* The program as far as base-URL resolution goes
UrlSpecInit ==
  /\ platform \in {"web", "tauri"}
  /\ menu = {}
  /\ now = 1
  /\ localStorage = ForeignLs
  /\ tauriMem = ForeignStore
  /\ unsaved = FALSE
  /\ initialized = FALSE
  /\ store = Null
  /\ task = [t \in Tasks |-> IdleTask]
  /\ bridge \in (IF platform = "web" THEN {"absent", "inert"} ELSE {"empty", "varying"})
  /\ platformCache = Null
  /\ backendConfigsCache = Null
  /\ dbInstance = Null
  /\ DB_KEYS_EXPORT = Null
  /\ constructed = 0
  /\ call = [t \in Tasks |-> IdleCall]
  /\ env \in EnvPorts
  /\ isTauriSync = Null
  /\ built = [i \in Calls |-> NotRun]
  /\ aged = [i \in Calls |-> NotRun]
  /\ decided = NotRun

\* The import of the bridge module cannot reject once the probe of the
\* same module was answered, so BcImportFail has no place here
UrlNext ==
  \/ \E t \in Tasks : CallInitPlatform(t)
  \/ \E t \in Tasks : CallGetApiBaseUrl(t)
  \/ \E t \in Tasks : PiImportOk(t)
  \/ \E t \in Tasks : PiImportFail(t)
  \/ \E t \in Tasks : PiInvokeOk(t)
  \/ \E t \in Tasks : PiInvokeFail(t)
  \/ \E t \in Tasks : IpResume(t)
  \/ \E t \in Tasks : UrlResume(t)
  \/ \E t \in Tasks : BcImportOk(t)
  \/ \E t \in Tasks : BcInvoke(t)
  \/ \E t \in Tasks : BcSleep(t)
  \/ \E t \in Tasks : CallReturn(t)

UrlSpec == UrlSpecInit /\ [][UrlNext]_vars

\* ------------------------------------------------------------------------
\* The key builders called on their own
\* ------------------------------------------------------------------------
\* Parameter values: the strings of 1..MaxStrLen characters over a letter
\* and the delimiter
MaxStrLen == 2
KeyAlphabet == {"A", ":"}
ParamVals == {Str(s) : s \in UNION {[1..k -> KeyAlphabet] : k \in 1..MaxStrLen}}

\* The argument lists a builder is called with, by its parameter list
ArgsOf(name) ==
  CASE name \in {"SECURITIES_LIST", "BATCH_ANALYSIS", "MCX_TICKERS",
                 "MCX_FUTURE_SYMBOLS", "MCX_BATCH_ANALYSIS"} -> {<<>>}
    [] name = "CONTRACT_INFO" -> {<<a>> : a \in ParamVals}
    [] name = "MCX_OPTION_QUOTE" ->
         {<<a, b, OptionType, StrikePrice>> : a \in ParamVals, b \in ParamVals}
    [] OTHER -> {<<a, b>> : a \in ParamVals, b \in ParamVals}

\* The i-th recorded call is the next one to be made
NextCall(rec, i) ==
  /\ rec[i] = NotRun
  /\ i = "second" => rec["first"] # NotRun

\* The JavaScript expression `a || b`
OrElse(a, b) == IF ToBoolean(a) THEN a ELSE b

\* McxHistoricalDataParams objects
HistoricalParams ==
  [symbol : {Commodity}, expiry : {Expiry},
   from_date : {Str(<<"01-Dec-2025">>)}, to_date : {Str(<<"30-Dec-2025">>)},
   instrument_name : {Str(<<"FUTCOM">>), Str(<<"OPTFUT">>)},
   option_type : {Undefined, Str(<<"CE">>), Str(<<"PE">>)},
   strike_price : {Undefined, Str(<<>>), Str(<<"null">>), Str(<<"100">>)}]

\* getHistoricalData: const keyParams = [...]
KeyParams(params) ==
  << params.symbol, params.expiry, params.from_date, params.to_date,
     params.instrument_name,
     OrElse(params.option_type, Str(<<"null">>)),
     OrElse(params.strike_price, Str(<<"null">>)) >>

\* DB_KEYS.NAME or DB_KEYS.NAME(...args) of module `mod` is evaluated
BuildKey(i) ==
  /\ NextCall(built, i)
  /\ \E mod \in {"db", "db_tauri"} :
       \E name \in BuildersOf(mod) \ {"MCX_HISTORICAL_DATA"} :
         \E args \in ArgsOf(name) :
           built' = [built EXCEPT ![i] =
                       [mod |-> mod, name |-> name, params |-> Null, args |-> args,
                        key |-> KeyExpr(mod, name, args # <<>>, args)]]
  /\ UNCHANGED <<ProgramVars, aged, decided>>

\* getHistoricalData builds its key: DB_KEYS.MCX_HISTORICAL_DATA(...keyParams)
BuildHistoricalKey(i) ==
  /\ NextCall(built, i)
  /\ \E params \in HistoricalParams :
       built' = [built EXCEPT ![i] =
                   [mod |-> "db_tauri", name |-> "MCX_HISTORICAL_DATA",
                    params |-> params, args |-> KeyParams(params),
                    key |-> KeyExpr("db_tauri", "MCX_HISTORICAL_DATA", TRUE,
                                    KeyParams(params))]]
  /\ UNCHANGED <<ProgramVars, aged, decided>>

\* ------------------------------------------------------------------------
\* getDataAge of the two store classes
\* ------------------------------------------------------------------------
\* `${n} ${unit}${n !== 1 ? 's' : ''} ago`
Ago(n, unit) ==
  Str(<<ToString(n), " ", unit>> \o (IF n # 1 THEN <<"s">> ELSE <<>>) \o <<" ago">>)

\* The body both classes share, from `const diffMs = now - lastUpdated`
AgeOf(nowMs, lastUpdated) ==
  LET diffMs == nowMs - lastUpdated
      diffMinutes == diffMs \div (1000 * 60)
      diffHours == diffMs \div (1000 * 60 * 60)
      diffDays == diffMs \div (1000 * 60 * 60 * 24)
  IN IF diffMinutes < 1 THEN Str(<<"just now">>)
     ELSE IF diffMinutes < 60 THEN Ago(diffMinutes, "minute")
     ELSE IF diffHours < 24 THEN Ago(diffHours, "hour")
     ELSE Ago(diffDays, "day")

\* DataStorage.getDataAge(lastUpdated): const now = Date.now(); a second
\* argument is not a parameter and is dropped
DataStorage_getDataAge(lastUpdated, currentTime, wall) == AgeOf(wall, lastUpdated)

\* DataStorageTauri.getDataAge(lastUpdated, currentTime?):
\* const now = currentTime || Date.now()
DataStorageTauri_getDataAge(lastUpdated, currentTime, wall) ==
  AgeOf(OrElse(currentTime, Num(wall)).n, lastUpdated)

\* Instants in epoch milliseconds: a write instant and what has elapsed
\* since, on both sides of every bucket border
Written == {100000000}
Elapsed ==
  {-1000, 0, 10000, 30000, 59999, 60000, 119999, 120000, 300000, 3599999, 3600000,
   7199999, 7200000, 86399999, 86400000, 172799999, 172800000, 259200000}
WallElapsed == {0, 60000, 7200000}

\* db.getDataAge(lastUpdated) or db.getDataAge(lastUpdated, currentTime) is
\* evaluated while Date.now() is `wall`
GetDataAge(i) ==
  /\ NextCall(aged, i)
  /\ \E backend \in {"web", "tauri"}, lastUpdated \in Written, wallE \in WallElapsed :
       \E currentTime \in {Undefined} \cup {Num(lastUpdated + e) : e \in Elapsed} :
         LET wall == lastUpdated + wallE IN
         aged' = [aged EXCEPT ![i] =
                    [backend |-> backend, lastUpdated |-> lastUpdated,
                     currentTime |-> currentTime, wall |-> wall,
                     result |-> IF backend = "web"
                                  THEN DataStorage_getDataAge(lastUpdated, currentTime, wall)
                                  ELSE DataStorageTauri_getDataAge(lastUpdated,
                                                                   currentTime, wall)]]
  /\ UNCHANGED <<ProgramVars, built, decided>>

AgeNext == \E i \in Calls : GetDataAge(i)

\* No platform.ts, db_factory.ts or store call is made around the calls of
\* the pure functions
PureInit ==
  /\ platform = "web"
  /\ menu = {}
  /\ now = 1
  /\ localStorage = ForeignLs
  /\ tauriMem = ForeignStore
  /\ unsaved = FALSE
  /\ initialized = FALSE
  /\ store = Null
  /\ task = [t \in Tasks |-> IdleTask]
  /\ bridge = "absent"
  /\ FactoryInit

\* ------------------------------------------------------------------------
\* github-workflow-trigger/src/index.js: the market schedule and
\* shouldRunWorkflow()
\* ------------------------------------------------------------------------
\* Instants are [day, minute]: the UTC day counted from 2026-11-07 (a
\* Saturday) and the UTC minute of that day.  Strings of times are
\* sequences of UTF-16 code units ('0' is 48, ':' is 58), which is what the
\* JavaScript comparison of strings compares.
MaxDay == 7

Instants ==
  [day : 0..MaxDay, minute : {m \in 0..1439 : m % 15 \in {0, 1, 14}}]

\* Minutes of Asia/Kolkata wall time since 2026-11-07 00:00, UTC+05:30
KolkataMinutes(instant) == instant.day * 1440 + instant.minute + 330

Pad2(n) == <<ToString(n \div 10), ToString(n % 10)>>

\* dateIST.toLocaleDateString('en-CA', { timeZone: 'Asia/Kolkata' })
toLocaleDateString(instant) ==
  Str(<<"2026-11-">> \o Pad2(7 + (KolkataMinutes(instant) \div 1440)))

\* dateIST.toLocaleTimeString('en-GB', { timeZone: 'Asia/Kolkata',
\*   hour12: false, hour: '2-digit', minute: '2-digit' })
toLocaleTimeString(instant) ==
  LET h == (KolkataMinutes(instant) % 1440) \div 60
      m == KolkataMinutes(instant) % 60
  IN <<48 + (h \div 10), 48 + (h % 10), 58, 48 + (m \div 10), 48 + (m % 10)>>

\* now.getDay() in the worker's own zone, which is UTC: 0 is Sunday
getDay(instant) == (6 + instant.day) % 7

\* a <= b on strings: by the first code unit that differs
StrLeq(a, b) ==
  LET n == IF Len(a) < Len(b) THEN Len(a) ELSE Len(b)
      diff == {i \in 1..n : a[i] # b[i]}
  IN IF diff = {} THEN Len(a) <= Len(b)
     ELSE LET k == CHOOSE i \in diff : \A j \in diff : i <= j IN a[k] < b[k]

Hours(start, end) == [start |-> start, end |-> end]
Entry(date, hours) == [date |-> Str(<<"2026-11-">> \o date), hours |-> hours]

\* marketSchedule.normalHours: '09:15' to '15:30'
normalHours == Hours(<<48, 57, 58, 49, 53>>, <<49, 53, 58, 51, 48>>)
\* hours of the Muhurat session: '18:00' to '19:15'
MuhuratHours == Hours(<<49, 56, 58, 48, 48>>, <<49, 57, 58, 49, 53>>)

\* The schedule of the source, its November part: 2026-11-08 is both a
\* holiday and an extended-hours date
marketSchedule ==
  [holidays |-> {Str(<<"2026-11-", "0", "8">>), Str(<<"2026-11-", "1", "0">>),
                 Str(<<"2026-11-", "2", "4">>)},
   extendedHours |-> << Entry(<<"0", "8">>, MuhuratHours) >>,
   weekendOpenings |-> << >>]

\* Other contents of the same tables: an evening session on a Sunday and on
\* a Wednesday that are no holidays; a Saturday opening; a Saturday with
\* both an opening and an evening session
Schedules ==
  { marketSchedule,
    [holidays |-> {Str(<<"2026-11-", "1", "0">>)},
     extendedHours |-> << Entry(<<"0", "8">>, MuhuratHours),
                          Entry(<<"1", "1">>, MuhuratHours) >>,
     weekendOpenings |-> << >>],
    [holidays |-> {Str(<<"2026-11-", "1", "0">>)},
     extendedHours |-> << >>,
     weekendOpenings |-> << Entry(<<"1", "4">>, normalHours) >>],
    [holidays |-> {},
     extendedHours |-> << Entry(<<"1", "4">>, MuhuratHours) >>,
     weekendOpenings |-> << Entry(<<"1", "4">>, normalHours) >>] }

\* marketSchedule.holidays.some(h => h.date === dateStr)
isHoliday(dateIST, schedule) == toLocaleDateString(dateIST) \in schedule.holidays

\* table.find(h => h.date === dateStr) || null
FindEntry(table, dateIST) ==
  LET hits == {i \in 1..Len(table) : table[i].date = toLocaleDateString(dateIST)} IN
  IF hits = {} THEN Null ELSE table[CHOOSE i \in hits : \A j \in hits : i <= j]

getExtendedHours(dateIST, schedule) == FindEntry(schedule.extendedHours, dateIST)
getWeekendOpening(dateIST, schedule) == FindEntry(schedule.weekendOpenings, dateIST)

\* currentTime >= hours.start && currentTime <= hours.end
isWithinMarketHours(dateIST, hours) ==
  /\ StrLeq(hours.start, toLocaleTimeString(dateIST))
  /\ StrLeq(toLocaleTimeString(dateIST), hours.end)

\* Variant: the extended-hours table is consulted before the holidays
shouldRunWorkflow_extendedFirst(instant, schedule) ==
  LET weekendOpening == getWeekendOpening(instant, schedule)
      extendedHours == getExtendedHours(instant, schedule)
  IN IF extendedHours # Null
       THEN isWithinMarketHours(instant, extendedHours.hours)
     ELSE IF isHoliday(instant, schedule) THEN FALSE
     ELSE IF weekendOpening # Null
       THEN isWithinMarketHours(instant, weekendOpening.hours)
     ELSE IF getDay(instant) \in {0, 6} THEN FALSE
     ELSE isWithinMarketHours(instant, normalHours)

\* shouldRunWorkflow() evaluated when new Date() is `instant`
shouldRunWorkflow(instant, schedule) ==
  LET weekendOpening == getWeekendOpening(instant, schedule)
      extendedHours == getExtendedHours(instant, schedule)
  IN IF isHoliday(instant, schedule) THEN FALSE
     ELSE IF weekendOpening # Null
       THEN isWithinMarketHours(instant, weekendOpening.hours)
     ELSE IF extendedHours # Null
       THEN isWithinMarketHours(instant, extendedHours.hours)
     ELSE IF getDay(instant) \in {0, 6} THEN FALSE
     ELSE isWithinMarketHours(instant, normalHours)

\* The cron trigger (or a request) fires: scheduled() evaluates
\* shouldRunWorkflow()
Scheduled ==
  /\ decided = NotRun
  /\ \E instant \in Instants, schedule \in Schedules :
       decided' = [instant |-> instant, schedule |-> schedule,
                   result |-> shouldRunWorkflow(instant, schedule)]
  /\ UNCHANGED <<ProgramVars, built, aged>>

\* The invocation is over
WorkerReturn ==
  /\ decided # NotRun
  /\ decided' = NotRun
  /\ UNCHANGED <<ProgramVars, built, aged>>

WorkflowNext == Scheduled \/ WorkerReturn

KeyNext ==
  \/ \E i \in Calls : BuildKey(i)
  \/ \E i \in Calls : BuildHistoricalKey(i)

\* ------------------------------------------------------------------------
\* The historical-data operations of the two clients
\* ------------------------------------------------------------------------
\* mcxApiClient.getHistoricalData(params) for one parameter object
getHistoricalData ==
  FetchOp("mcx", "getHistoricalData", "MCX_HISTORICAL_DATA", TRUE,
          KeyParams([symbol |-> Commodity, expiry |-> Expiry,
                     from_date |-> Str(<<"01-Dec-2025">>),
                     to_date |-> Str(<<"30-Dec-2025">>),
                     instrument_name |-> Str(<<"OPTFUT">>),
                     option_type |-> OptionType, strike_price |-> StrikePrice]))

\* Variant: getHistoricalData with a forceRefresh parameter like its siblings
HistBegin_force(t) ==
  /\ task[t].pc = "idle"
  /\ \E force \in BOOLEAN :
       LET tk == FetchTask(getHistoricalData, force) IN
       IF tk.key = TypeErr
         THEN /\ SetTask(t, Done(tk, Throw("TypeError")))
              /\ UNCHANGED <<localStorage, TauriVars>>
       ELSE IF force
         THEN /\ SetTask(t, [tk EXCEPT !.pc = "remote"])
              /\ UNCHANGED <<localStorage, TauriVars>>
       ELSE CallStore(t, [tk EXCEPT !.sop = "getData"])
  /\ UNCHANGED <<FactoryVars, platform, menu, now>>

\* getHistoricalData up to its first suspension: the key is built and the
\* cache is consulted; the operation has no forceRefresh parameter
HistBegin(t) ==
  /\ task[t].pc = "idle"
  /\ LET tk == FetchTask(getHistoricalData, FALSE) IN
     IF tk.key = TypeErr
       THEN /\ SetTask(t, Done(tk, Throw("TypeError")))
            /\ UNCHANGED <<localStorage, TauriVars>>
       ELSE CallStore(t, [tk EXCEPT !.sop = "getData"])
  /\ UNCHANGED <<FactoryVars, platform, menu, now>>

\* apiClient.getDerivativesHistorical(params): the query string is built
\* and the HTTP call issued
DerivBegin(t) ==
  /\ task[t].pc = "idle"
  /\ SetTask(t, [IdleTask EXCEPT !.kind = "fetch", !.op = "getDerivativesHistorical",
                                 !.pc = "remote_direct"])
  /\ UNCHANGED <<FactoryVars, platform, menu, now, localStorage, TauriVars>>

\* Its HTTP call resolves: return response.data
DerivRespond(t) ==
  /\ task[t].pc = "remote_direct"
  /\ \E resp \in Responses(t) :
       SetTask(t, Done([task[t] EXCEPT !.resp = resp], Ok(resp)))
  /\ UNCHANGED <<FactoryVars, platform, menu, now, localStorage, TauriVars>>

\* Its HTTP call rejects: caught, logged and rethrown
DerivThrow(t) ==
  /\ task[t].pc = "remote_direct"
  /\ SetTask(t, Done([task[t] EXCEPT !.resp = Thrown("NetworkError")],
                     Throw("NetworkError")))
  /\ UNCHANGED <<FactoryVars, platform, menu, now, localStorage, TauriVars>>

HistoricalInit ==
  /\ InitCommon
  /\ menu = {getHistoricalData}
  /\ \E seed \in Seeds(MenuKeys(menu, platform, "web"),
                       MenuKeys(menu, platform, "tauri")) :
       /\ localStorage = seed.ls
       /\ tauriMem = seed.mem

HistoricalNext ==
  \/ \E t \in Tasks : HistBegin(t)
  \/ \E t \in Tasks : DerivBegin(t)
  \/ \E t \in Tasks : DerivRespond(t)
  \/ \E t \in Tasks : DerivThrow(t)
  \/ \E t \in Tasks : FetchRespond(t)
  \/ \E t \in Tasks : FetchThrow(t)
  \/ \E t \in Tasks : TauriInit(t)
  \/ \E t \in Tasks : TauriLoadOk(t)
  \/ \E t \in Tasks : TauriLoadFail(t)
  \/ \E t \in Tasks : TauriGet(t)
  \/ \E t \in Tasks : TauriSet(t)
  \/ \E t \in Tasks : TauriSave(t)
  \/ \E t \in Tasks : TauriReject(t)
  \/ \E t \in Tasks : Return(t)
  \/ Tick

\* The program as far as platform detection and the store factory go
FactorySpecInit ==
  /\ platform \in {"web", "tauri"}
  /\ menu = {}
  /\ now = 1
  /\ localStorage = ForeignLs
  /\ tauriMem = ForeignStore
  /\ unsaved = FALSE
  /\ initialized = FALSE
  /\ store = Null
  /\ task = [t \in Tasks |-> IdleTask]
  /\ bridge \in (IF platform = "web" THEN {"absent", "inert"} ELSE {"varying"})
  /\ FactoryInit

FactoryNext ==
  \/ \E t \in Tasks : CallGetPlatformInfo(t)
  \/ \E t \in Tasks : PiImportOk(t)
  \/ \E t \in Tasks : PiImportFail(t)
  \/ \E t \in Tasks : PiInvokeOk(t)
  \/ \E t \in Tasks : PiInvokeFail(t)
  \/ \E t \in Tasks : CallGetDb(t)
  \/ \E t \in Tasks : GdConstruct(t)
  \/ \E t \in Tasks : CallReturn(t)

FactorySpec == FactorySpecInit /\ [][FactoryNext]_vars

\* ------------------------------------------------------------------------
\* Vocabulary of the properties
\* ------------------------------------------------------------------------
\* Caller t holds the settled result of a fetch operation
FetchDone(t) == task[t].kind = "fetch" /\ task[t].pc = "done"

\* The operation issued its HTTP call (the call settled with some outcome)
RemoteCalled(tk) == tk.resp # NotRun

\* What the operation's own getData(key) answered: a usable entry, or
\* nothing usable
Hit(tk) == tk.cached # NotRun /\ ToBoolean(tk.cached)
Miss(tk) == tk.cached # NotRun /\ ~ToBoolean(tk.cached)

\* The backend answered, and not with success and data
RemoteFailed(resp) ==
  resp # NotRun /\ (resp.t = "thrown" \/ ~ToBoolean(GetProp(resp, "success")))

\* What a getData(key) that starts and finishes now would answer
GetViewIn(ls, mem, db, key) ==
  IF db = "web" THEN {DataStorage_getData(ls, key)}
  ELSE StoreGetOutcomes(mem, FullKey(key))

GetView(db, key) == GetViewIn(localStorage, tauriMem, db, key)

\* The medium behind store class `db`
Medium(ls, mem, db) == IF db = "web" THEN ls ELSE mem

None == {Null, Undefined}

\* The physical slot of `key` on medium `db` holds something
SlotPresent(db, key) == FullKey(key) \in DOMAIN Medium(localStorage, tauriMem, db)

\* ------------------------------------------------------------------------
\* C1.  Every cached data-fetch operation that has settled called the remote
\* backend exactly when forceRefresh was true or its getData(key) missed;
\* and when forceRefresh was false and getData(key) hit, it returned the
\* envelope success=true, fromCache=true, data = the entry's data,
\* lastUpdated = the entry's lastUpdated.
\* ------------------------------------------------------------------------
C1_RemoteIffForcedOrMiss ==
  \A t \in Tasks :
    FetchDone(t) =>
      LET tk == task[t] IN
      /\ RemoteCalled(tk) <=> (tk.force \/ Miss(tk))
      /\ (~tk.force /\ Hit(tk)) =>
           /\ tk.ret.st = "ok"
           /\ GetProp(tk.ret.v, "success") = Bool(TRUE)
           /\ GetProp(tk.ret.v, "fromCache") = Bool(TRUE)
           /\ GetProp(tk.ret.v, "data") = GetProp(tk.cached, "data")
           /\ GetProp(tk.ret.v, "lastUpdated") = GetProp(tk.cached, "lastUpdated")

\* ------------------------------------------------------------------------
\* C2 as stated.  A fetch operation whose backend call answered success with
\* data has written the entry and returns an envelope with fromCache=false
\* and lastUpdated = the time of that write.
\* ------------------------------------------------------------------------
C2_ReturnsFreshEnvelope ==
  \A t \in Tasks :
    (FetchDone(t) /\ task[t].resp # NotRun /\ task[t].resp.t = "object"
       /\ ShouldStore(task[t].resp) /\ task[t].ret.st = "ok") =>
      /\ GetProp(task[t].ret.v, "fromCache") = Bool(FALSE)
      /\ GetProp(task[t].ret.v, "lastUpdated") = GetProp(task[t].stored, "lastUpdated")

\* The step in which caller t's fetch operation applies its cache write
FetchWriteStep(t) ==
  /\ task'[t].kind = "fetch"
  /\ \/ /\ task[t].pc = "remote" /\ task'[t].pc = "done" /\ task'[t].db = "web"
        /\ ShouldStore(task'[t].resp) /\ task'[t].ret.st = "ok"
     \/ task[t].pc = "set" /\ task'[t].pc = "save"

\* The step in which caller t's fetch operation settles after a backend
\* answer of success with data
FetchSettleStep(t) ==
  /\ task[t].pc # "done" /\ task'[t].pc = "done" /\ task'[t].kind = "fetch"
  /\ task'[t].resp # NotRun /\ task'[t].resp.t = "object"
  /\ ShouldStore(task'[t].resp)

\* C2, amended.  When the backend answers success with data, the operation
\* stores that data under its key: right after the write the slot holds
\* exactly the entry {data, timestamp, lastUpdated} whose lastUpdated is the
\* clock reading taken for the write.  If the write succeeds the operation
\* returns the backend's envelope itself, which carries neither fromCache
\* nor lastUpdated; if the write fails it rejects with the storage error.
C2_StoresAndReturnsBackendEnvelope ==
  [][\A t \in Tasks :
       /\ FetchWriteStep(t) =>
            LET tk == task'[t]
                entry == StoredData(GetProp(tk.resp, "data"), now) IN
            /\ GetProp(tk.stored, "data") = GetProp(tk.resp, "data")
            /\ GetProp(tk.stored, "lastUpdated") \in {Num(n) : n \in 0..now}
            /\ IF tk.db = "web"
                 THEN /\ tk.stored = entry
                      /\ getItem(localStorage', FullKey(tk.key)) = JSONstringify(entry)
                      /\ DataStorage_getData(localStorage', tk.key) = ToJSON(entry)
                 ELSE getItem(tauriMem', FullKey(tk.key)) = ToJSON(tk.stored)
       /\ FetchSettleStep(t) =>
            LET tk == task'[t] IN
            \/ /\ tk.ret = Ok(tk.resp)
               /\ GetProp(tk.ret.v, "fromCache") = Undefined
               /\ GetProp(tk.ret.v, "lastUpdated") = Undefined
               /\ tk.stored # Undefined
            \/ tk.ret.st = "throw"
  ]_vars

\* A fetch operation has settled after storing the backend's data, and the
\* slot of its key holds the entry it wrote
C2_Witness ==
  \E t \in Tasks :
    /\ FetchDone(t) /\ task[t].resp = RespOk(RespData(t))
    /\ task[t].ret = Ok(task[t].resp)
    /\ \A v \in GetView(task[t].db, task[t].key) : v = ToJSON(task[t].stored)

\* ------------------------------------------------------------------------
\* C3.  When the backend call fails (the envelope says success=false, or the
\* call raises), the step that receives the failure settles the operation
\* with that very envelope or error, and leaves both storage media as they
\* were: with forceRefresh and an existing entry, the entry stays.
\* ------------------------------------------------------------------------
C3_FailureLeavesCache ==
  [][\A t \in Tasks :
       (task[t].pc = "remote" /\ task'[t] # task[t] /\ RemoteFailed(task'[t].resp)) =>
         /\ task'[t].pc = "done"
         /\ task'[t].ret = (IF task'[t].resp.t = "thrown"
                              THEN Throw(task'[t].resp.e) ELSE Ok(task'[t].resp))
         /\ localStorage' = localStorage
         /\ tauriMem' = tauriMem
  ]_vars

\* A forced refresh failed while the slot of the key holds an entry
C3_Witness ==
  \E t \in Tasks :
    /\ FetchDone(t) /\ task[t].force /\ RemoteFailed(task[t].resp)
    /\ SlotPresent(task[t].db, task[t].key)
    /\ \A v \in GetView(task[t].db, task[t].key) : GetProp(v, "data") \in {D0} \cup DataVals

\* ------------------------------------------------------------------------
\* Steps of the store methods called directly
\* ------------------------------------------------------------------------
\* Caller t's storeData(key, arg) applies its write
StoreWriteStep(t) ==
  /\ task'[t].kind = "storeData"
  /\ \/ task[t].pc = "idle" /\ task'[t].pc = "done" /\ task'[t].ret.st = "ok"
     \/ task[t].pc = "set" /\ task'[t].pc = "save"

\* Caller t's getData(key) or hasData(key) reads the slot and settles
StoreReadStep(t) ==
  /\ task'[t].kind \in {"getData", "hasData"}
  /\ task[t].pc \in {"idle", "get"} /\ task'[t].pc = "done"

\* Caller t's clearData(key) applies its removal
StoreClearStep(t) ==
  /\ task'[t].kind = "clearData"
  /\ \/ task[t].pc = "idle" /\ task'[t].pc = "done"
     \/ task[t].pc = "delete" /\ task'[t].pc = "save"

C5_AbsentKeyMisses ==
  [][\A t \in Tasks :
       (StoreReadStep(t)
          /\ FullKey(task'[t].key)
               \notin DOMAIN Medium(localStorage, tauriMem, task'[t].db)) =>
         /\ task'[t].ret.st = "ok"
         /\ task'[t].kind = "getData" => task'[t].ret.v \in None
         /\ task'[t].kind = "hasData" => task'[t].ret.v = Bool(FALSE)
  ]_vars

\* ------------------------------------------------------------------------
\* C6.  A hasData(k) that has settled answered true exactly when the
\* getData(k) it ran on that state returned an entry, and false exactly
\* when that getData(k) returned the absent result.
\* ------------------------------------------------------------------------
C6_HasDataAgreesWithGetData ==
  \A t \in Tasks :
    (task[t].kind = "hasData" /\ task[t].pc = "done") =>
      /\ task[t].ret.st = "ok"
      /\ task[t].ret.v = Bool(TRUE) <=>
           (task[t].cached # NotRun /\ task[t].cached \notin None)
      /\ task[t].ret.v = Bool(FALSE) <=> task[t].cached \in None

\* ------------------------------------------------------------------------
\* C7.  Overwrite: whatever the slot of k held before (an entry of an
\* earlier storeData included, also one applied by a concurrent caller),
\* right after a storeData(k, d) has written the medium holds one value at
\* k, the whole record of that write (its data and its lastUpdated), and
\* every other key is as it was.
\* ------------------------------------------------------------------------
C7_LastWriteWins ==
  [][\A t \in Tasks :
       StoreWriteStep(t) =>
         LET tk == task'[t]
             pk == FullKey(tk.key)
             m == Medium(localStorage, tauriMem, tk.db)
             m2 == Medium(localStorage', tauriMem', tk.db) IN
         /\ GetProp(tk.stored, "data") = tk.arg
         /\ GetProp(tk.stored, "lastUpdated") \in {Num(n) : n \in 0..now}
         /\ GetProp(tk.stored, "timestamp") \in {IsoStr(n) : n \in 0..now}
         /\ GetViewIn(localStorage', tauriMem', tk.db, tk.key) = {ToJSON(tk.stored)}
         /\ DOMAIN m2 = DOMAIN m \cup {pk}
         /\ \A x \in DOMAIN m \ {pk} : m2[x] = m[x]
  ]_vars

\* Two callers have each stored under K1, the second one later and with
\* other data, and the slot holds the second record
C7_Witness ==
  /\ task["t1"].kind = "storeData" /\ task["t1"].pc = "done"
  /\ task["t2"].kind = "storeData" /\ task["t2"].pc = "done"
  /\ task["t1"].ret.st = "ok" /\ task["t2"].ret.st = "ok"
  /\ task["t1"].stored = StoredData(D1, 1)
  /\ task["t2"].stored = StoredData(D2, 2)
  /\ GetView(task["t2"].db, K1) = {StoredData(D2, 2)}

\* ------------------------------------------------------------------------
\* C8.  clearData(k): right after the removal a getData(k) answers the
\* absent result and every other key of the medium is as it was; on
\* localStorage the call always returns normally, and on the Tauri store it
\* fails only when the store cannot be loaded or a bridge call rejects,
\* never because k is absent.
\* ------------------------------------------------------------------------
C8_ClearData ==
  [][\A t \in Tasks :
       /\ StoreClearStep(t) =>
            LET tk == task'[t]
                pk == FullKey(tk.key)
                m == Medium(localStorage, tauriMem, tk.db)
                m2 == Medium(localStorage', tauriMem', tk.db) IN
            /\ GetViewIn(localStorage', tauriMem', tk.db, tk.key) \subseteq None
            /\ DOMAIN m2 = DOMAIN m \ {pk}
            /\ \A x \in DOMAIN m2 : m2[x] = m[x]
            /\ tk.db = "web" => tk.ret = Ok(Undefined)
       /\ (task'[t].kind = "clearData" /\ task'[t].pc = "done"
             /\ task'[t].ret.st = "throw") =>
            /\ task'[t].db = "tauri"
            /\ task'[t].ret.e \in {"StoreLoadError", "StoreError"}
  ]_vars

\* A clearData(K1) has returned: K1 is gone, the entry at K2 is still there
C8_Witness ==
  \E t \in Tasks :
    /\ task[t].kind = "clearData" /\ task[t].pc = "done" /\ task[t].ret = Ok(Undefined)
    /\ ~SlotPresent(task[t].db, K1)
    /\ GetView(task[t].db, K2) = {ToJSON(StoredData(D0, 0))}

\* ------------------------------------------------------------------------
\* C9.  clearAllData run with no other caller: once it has returned, no
\* physical key starting with 'nse-options-db:' is left, and every other key
\* of the medium is present with its value unchanged.
\* ------------------------------------------------------------------------
C9_ClearAllFrame ==
  \A t \in Tasks :
    (task[t].kind = "clearAllData" /\ task[t].pc = "done" /\ task[t].ret.st = "ok") =>
      LET m == Medium(localStorage, tauriMem, task[t].db)
          foreign == Medium(ForeignLs, ForeignStore, task[t].db) IN
      /\ PrefixedKeys(m) = {}
      /\ \A x \in DOMAIN foreign : x \in DOMAIN m /\ m[x] = foreign[x]

\* A clearAllData that found two keys of the namespace has returned
C9_Witness ==
  \E t \in Tasks :
    /\ task[t].kind = "clearAllData" /\ task[t].pc = "done" /\ task[t].ret.st = "ok"
    /\ Len(task[t].keysToDelete) = 2
    /\ PrefixedKeys(Medium(localStorage, tauriMem, task[t].db)) = {}

\* ------------------------------------------------------------------------
\* C10.  When the slot of the key holds a value that is not a well-formed
\* entry (text that does not parse, or a value of another shape), the
\* lookup of a hasData or of a non-forced fetch operation gets the absent
\* result from getData: hasData answers false and the fetch operation goes
\* on to call the backend.
\* ------------------------------------------------------------------------
WellFormedEntry(v) ==
  v.t = "object" /\ {"data", "timestamp", "lastUpdated"} \subseteq DOMAIN v.f

CorruptSlot(ls, mem, db, key) ==
  LET pk == FullKey(key) IN
  IF db = "web"
    THEN pk \in DOMAIN ls
           /\ (JSONparseThrows(ls[pk]) \/ ~WellFormedEntry(JSONparse(ls[pk])))
    ELSE pk \in DOMAIN mem /\ ~WellFormedEntry(mem[pk])

LookupStep(t) ==
  /\ task'[t].kind \in {"fetch", "hasData"}
  /\ task'[t].key # TypeErr
  /\ ~task'[t].force
  /\ \/ task[t].pc = "idle" /\ task'[t].pc \in {"done", "remote"}
     \/ task[t].pc = "get" /\ task'[t].pc \in {"done", "remote"}

C10_CorruptSlotIsMiss ==
  [][\A t \in Tasks :
       (LookupStep(t)
          /\ CorruptSlot(localStorage, tauriMem, task'[t].db, task'[t].key)) =>
         /\ task'[t].cached \in None
         /\ task'[t].kind = "hasData" => task'[t].ret = Ok(Bool(FALSE))
         /\ task'[t].kind = "fetch" => task'[t].pc = "remote"
  ]_vars

\* ------------------------------------------------------------------------
\* C11.  storeData(k, v) passes through its steps once, in order, and
\* settles either normally, with the write applied (and, on the Tauri
\* store, saved), or with the error of the medium (the store file fails to
\* load, a set/save bridge call rejects, setItem throws), which it hands to
\* its caller in the very step that receives it: no step of the call is
\* attempted a second time.
\* ------------------------------------------------------------------------
PcRank(pc) ==
  CASE pc = "idle" -> 0
    [] pc = "init" -> 1
    [] pc = "load" -> 2
    [] pc = "set" -> 3
    [] pc = "save" -> 4
    [] pc = "done" -> 5
    [] OTHER -> 6

MediumErrors == {"QuotaExceededError", "StoreLoadError", "StoreError"}

C11_StoreDataFailsOnlyWithMedium ==
  [][\A t \in Tasks :
       (task'[t].kind = "storeData" /\ task'[t] # task[t]) =>
         LET tk == task'[t] IN
         /\ PcRank(tk.pc) > PcRank(task[t].pc)
         /\ tk.pc = "done" =>
              \/ /\ tk.ret = Ok(Undefined)
                 /\ IF tk.db = "web"
                      THEN getItem(localStorage', FullKey(tk.key)) = JSONstringify(tk.stored)
                      ELSE task[t].pc = "save" /\ ~unsaved'
              \/ /\ tk.ret.st = "throw"
                 /\ tk.ret.e \in MediumErrors
                 /\ localStorage' = localStorage
                 /\ tauriMem' = tauriMem
  ]_vars

\* One storeData was rejected with the medium's error while another one
\* has succeeded
C11_Witness ==
  \E t, u \in Tasks :
    /\ task[t].kind = "storeData" /\ task[t].pc = "done"
    /\ task[t].ret.st = "throw" /\ task[t].ret.e \in MediumErrors
    /\ task[u].kind = "storeData" /\ task[u].pc = "done" /\ task[u].ret = Ok(Undefined)

\* ------------------------------------------------------------------------
\* C12.  No expiry and no side effects on other keys: in every step in
\* which the value at some physical key of either medium changes or
\* disappears, the caller that moved is running a storeData (directly or
\* as the cache write of a fetch operation) or a clearData on that very
\* key, or a clearAllData.  The passing of time, getData, hasData, cache
\* hits, failed fetches and operations on other keys leave every entry
\* with its data and lastUpdated.
\* ------------------------------------------------------------------------
Writes(tk, pk) ==
  /\ tk.kind = "storeData" \/ (tk.kind = "fetch" /\ tk.sop = "storeData")
       \/ (tk.kind = "fetch" /\ tk.pc = "done" /\ tk.stored # Undefined)
  /\ FullKey(tk.key) = pk

Clears(tk, pk) ==
  \/ tk.kind = "clearData" /\ FullKey(tk.key) = pk
  \/ tk.kind = "clearAllData"

C12_EntriesLiveUntilOverwrittenOrCleared ==
  [][\A db \in {"web", "tauri"} :
       LET m == Medium(localStorage, tauriMem, db)
           m2 == Medium(localStorage', tauriMem', db) IN
       \A pk \in DOMAIN m :
         (pk \notin DOMAIN m2 \/ m2[pk] # m[pk]) =>
           \E t \in Tasks :
             /\ task'[t] # task[t]
             /\ task'[t].db = db
             /\ Writes(task'[t], pk) \/ Clears(task'[t], pk)
  ]_vars

\* Time has run to the end of the clock, one caller has overwritten K1 and
\* the other has cleared K1, and the entry an earlier session left at K2
\* is still what it was
C12_Witness ==
  /\ now = MaxClock
  /\ \E t, u \in Tasks :
       /\ task[t].kind = "storeData" /\ task[t].pc = "done" /\ task[t].ret.st = "ok"
       /\ task[u].kind = "clearData" /\ task[u].pc = "done" /\ task[u].ret.st = "ok"
       /\ GetView(task[t].db, K2) = {ToJSON(StoredData(D0, 0))}

\* ------------------------------------------------------------------------
\* C14.  Every cache read, write and clear in flight, whichever call site
\* issued it (NSE client, MCX client, the page's clear-all), runs on the
\* store class selected by the platform: DataStorage when Hosted,
\* DataStorageTauri when Embedded; and once the page's clear-all has
\* returned with nothing else in flight, the store of the platform holds
\* no entry of the namespace.
\* ------------------------------------------------------------------------
C14_OneBackingStore ==
  /\ \A t \in Tasks : task[t].db # "none" => task[t].db = platform
  /\ \A t \in Tasks :
       (task[t].kind = "clearAllData" /\ task[t].pc = "done" /\ task[t].ret.st = "ok"
          /\ \A u \in Tasks \ {t} : task[u].pc = "idle") =>
         PrefixedKeys(Medium(localStorage, tauriMem, platform)) = {}

\* ------------------------------------------------------------------------
\* C15.  The key a data operation in flight is using was built by a
\* builder that exists in the DB_KEYS of db.ts and of db_tauri.ts and gives
\* the same string in both, and two different operations in flight never
\* use the same key.
\* ------------------------------------------------------------------------
OpNamed(name) == CHOOSE op \in FetchOps : op.name = name

C15_SameVocabulary ==
  \A t \in Tasks :
    task[t].kind \in {"fetch", "hasData"} =>
      LET op == OpNamed(task[t].op) IN
      /\ task[t].key.t = "string"
      /\ KeyExpr("db", op.builder, op.isCall, op.args) = task[t].key
      /\ KeyExpr("db_tauri", op.builder, op.isCall, op.args) = task[t].key
      /\ \A u \in Tasks :
           (task[u].kind \in {"fetch", "hasData"} /\ task[u].op # task[t].op) =>
             task[u].key # task[t].key

\* ------------------------------------------------------------------------
\* C13.  However the getDb() calls interleave, getDb() has constructed at
\* most one store object, and any two calls that have resolved hold the
\* same { db, DB_KEYS } pair.
\* ------------------------------------------------------------------------
C13_OneStoreInstance ==
  /\ constructed <= 1
  /\ \A t, u \in Tasks :
       (call[t].fn = "getDb" /\ call[t].pc = "done"
          /\ call[u].fn = "getDb" /\ call[u].pc = "done") =>
         call[t].ret = call[u].ret

\* ------------------------------------------------------------------------
\* C16.  A getPlatformInfo() call always settles by resolving, never by
\* rejecting: with Hosted ({is_tauri: false, platform: 'web'}) when the
\* import of the bridge module or the probe rejects, and with exactly the
\* value the probe reported when it resolves.
\* ------------------------------------------------------------------------
C16_PlatformInfoNeverRejects ==
  [][\A t \in Tasks :
       (call'[t].fn = "getPlatformInfo" /\ call[t].pc # "done"
          /\ call'[t].pc = "done") =>
         LET ck == call'[t] IN
         /\ ck.ret.st = "ok"
         /\ call[t].pc = "pi_import" => ck.ret.v = Hosted
         /\ (call[t].pc = "pi_invoke" /\ ck.reported.t = "thrown") => ck.ret.v = Hosted
         /\ (call[t].pc = "pi_invoke" /\ ck.reported.t # "thrown") =>
              ck.ret.v = ck.reported
         /\ call[t].pc = "idle" => ck.ret.v = ck.atStart
  ]_vars

\* One call was answered Hosted after its probe rejected, another one got
\* the host's report
C16_Witness ==
  \E t, u \in Tasks :
    /\ call[t].fn = "getPlatformInfo" /\ call[t].pc = "done"
    /\ call[t].reported = Thrown("invoke") /\ call[t].ret = Ok(Hosted)
    /\ call[u].fn = "getPlatformInfo" /\ call[u].pc = "done"
    /\ call[u].reported = Reported /\ call[u].ret = Ok(Reported)

\* ------------------------------------------------------------------------
\* C17.  However the getPlatformInfo() calls interleave: once platformCache
\* is set it is never assigned a different value, no probe is issued while
\* it is set, and any two callers that have resolved hold the same
\* PlatformInfo.
\* ------------------------------------------------------------------------
C17_PlatformResolvedOnce ==
  [][/\ platformCache # Null => platformCache' = platformCache
     /\ \A t \in Tasks :
          (call[t].pc = "pi_import" /\ call'[t].pc = "pi_invoke") =>
            platformCache = Null
     /\ \A t, u \in Tasks :
          (call'[t].fn = "getPlatformInfo" /\ call'[t].pc = "done"
             /\ call'[u].fn = "getPlatformInfo" /\ call'[u].pc = "done") =>
            call'[t].ret = call'[u].ret
  ]_vars

\* ------------------------------------------------------------------------
\* C18.  Once backendConfigsCache holds a list it holds that list for the
\* rest of the process, and a getBackendConfigs() call that starts while
\* it is set returns it at once, without a host-bridge query.
\* ------------------------------------------------------------------------
C18_ConfigsMemoizedForGood ==
  [][/\ backendConfigsCache # Null => backendConfigsCache' = backendConfigsCache
     /\ \A t \in Tasks :
          (call[t].pc = "idle" /\ call'[t].fn = "getBackendConfigs"
             /\ backendConfigsCache # Null) =>
            /\ call'[t].pc = "done"
            /\ call'[t].ret = Ok(backendConfigsCache)
            /\ call'[t].queries = 0
  ]_vars

\* getBackendConfigs() under the assumption that every pending import,
\* bridge query and sleep eventually completes: the JavaScript event loop
\* runs each continuation once the promise it awaits has settled.
DiscoveryFairness ==
  \A t \in Tasks :
    /\ WF_vars(BcImportOk(t))
    /\ WF_vars(BcImportFail(t))
    /\ WF_vars(BcInvoke(t))
    /\ WF_vars(BcSleep(t))

DiscoveryLiveSpec == DiscoverySpecInit /\ [][DiscoveryNext]_vars /\ DiscoveryFairness

\* ------------------------------------------------------------------------
\* C19.  One getBackendConfigs() resolution has one query in flight at a
\* time and issues at most 10: a new query is issued only when the import
\* has resolved or the sleep after the previous query is over; the first
\* query answered with a non-empty list ends it: that list is memoized and
\* returned in the same step, and the call issues nothing afterwards.
\* ------------------------------------------------------------------------
C19_SequentialBoundedQueries ==
  [][\A t \in Tasks :
       (call'[t].fn = "getBackendConfigs" /\ call'[t] # call[t]) =>
         LET ck == call'[t] IN
         /\ ck.queries <= 10
         /\ ck.queries \in {call[t].queries, call[t].queries + 1}
         /\ ck.queries = call[t].queries + 1 =>
              call[t].pc \in {"bc_import", "bc_sleep"} /\ ck.pc = "bc_invoke"
         /\ call[t].pc = "bc_invoke" =>
              IF ck.reported.st = "ok" /\ Len(ck.reported.v.items) > 0
                THEN /\ ck.pc = "done"
                     /\ ck.ret = Ok(ck.reported.v)
                     /\ backendConfigsCache' = ck.reported.v
                ELSE /\ ck.pc = "bc_sleep"
                     /\ backendConfigsCache' = backendConfigsCache
  ]_vars

\* A resolution was answered with a non-empty list on its third query and
\* returned that list
C19_Witness ==
  \E t \in Tasks :
    /\ call[t].fn = "getBackendConfigs" /\ call[t].pc = "done"
    /\ call[t].queries = 3
    /\ call[t].reported = Ok(ConfigsBoth)
    /\ call[t].ret = Ok(ConfigsBoth)
    /\ backendConfigsCache = ConfigsBoth

\* ------------------------------------------------------------------------
\* C20.  With a host bridge that answers every query with an empty list, a
\* getBackendConfigs() call that found nothing memoized has issued exactly
\* 10 queries when it returns, returns the static default list (nse on
\* port 3001 with /nse_health, mcx on port 3002 with /mcx_health) and has
\* memoized it; a call that starts afterwards returns the same list having
\* issued no query.
\* ------------------------------------------------------------------------
C20_FallbackAfterTenQueries ==
  \A t \in Tasks :
    (bridge = "empty" /\ call[t].fn = "getBackendConfigs" /\ call[t].pc = "done") =>
      /\ call[t].ret =
           Ok(Arr(<< Obj(("exchange" :> Str(<<"nse">>)) @@ ("port" :> Str(<<"3001">>))
                         @@ ("health_path" :> Str(<<"/nse_health">>))),
                     Obj(("exchange" :> Str(<<"mcx">>)) @@ ("port" :> Str(<<"3002">>))
                         @@ ("health_path" :> Str(<<"/mcx_health">>))) >>))
      /\ backendConfigsCache = call[t].ret.v
      /\ call[t].queries = (IF call[t].atStart = Null THEN 10 ELSE 0)

\* The bridge answers only empty lists; one caller went through the ten
\* queries, the other called afterwards and was served from the cache
C20_Witness ==
  /\ bridge = "empty"
  /\ \E t, u \in Tasks :
       /\ call[t].fn = "getBackendConfigs" /\ call[t].pc = "done"
       /\ call[t].atStart = Null /\ call[t].queries = 10
       /\ call[u].fn = "getBackendConfigs" /\ call[u].pc = "done"
       /\ call[u].atStart = DefaultConfigs /\ call[u].queries = 0
       /\ call[u].ret = call[t].ret

\* ------------------------------------------------------------------------
\* C21.  getBackendConfigs() never rejects.  A host-bridge query that
\* throws is handled as an empty answer is: nothing is memoized, the call
\* goes to the one-second sleep, and the sleep uses up one of the 10
\* attempts: after it the next query is issued while fewer than 10 were,
\* and after the tenth the call resolves to the static default list.
\* ------------------------------------------------------------------------
C21_DiscoveryNeverRejects ==
  [][\A t \in Tasks :
       (call'[t].fn = "getBackendConfigs" /\ call'[t] # call[t]) =>
         LET ck == call'[t] IN
         /\ ck.ret.st # "throw"
         /\ (call[t].pc = "bc_invoke" /\ ck.reported.st = "throw") =>
              /\ ck = [call[t] EXCEPT !.pc = "bc_sleep", !.reported = ck.reported]
              /\ backendConfigsCache' = backendConfigsCache
         /\ call[t].pc = "bc_sleep" =>
              /\ ck.retries = call[t].retries - 1
              /\ ck.reported = call[t].reported
              /\ IF call[t].queries < 10
                   THEN ck.pc = "bc_invoke" /\ ck.queries = call[t].queries + 1
                   ELSE /\ ck.pc = "done"
                        /\ ck.queries = 10
                        /\ ck.ret = Ok(DefaultConfigs)
                        /\ backendConfigsCache' = DefaultConfigs
  ]_vars

\* A call whose tenth query threw has resolved to the default list
C21_Witness ==
  \E t \in Tasks :
    /\ call[t].fn = "getBackendConfigs" /\ call[t].pc = "done"
    /\ call[t].reported = Throw("invoke")
    /\ call[t].queries = 10
    /\ call[t].ret = Ok(DefaultConfigs)

\* ------------------------------------------------------------------------
\* C22.  Whatever the interleaving of getBackendConfigs() callers, the
\* descriptor list is resolved once: backendConfigsCache, once set, is
\* never assigned a different list, and any two callers that have
\* returned hold the same list.
\* ------------------------------------------------------------------------
C22_ConfigsResolvedOnce ==
  [][/\ ToBoolean(backendConfigsCache) =>
          backendConfigsCache' = backendConfigsCache
     /\ \A t, u \in Tasks :
          (/\ call'[t].fn = "getBackendConfigs" /\ call'[t].pc = "done"
           /\ call'[u].fn = "getBackendConfigs" /\ call'[u].pc = "done") =>
            call'[t].ret = call'[u].ret
  ]_vars

\* ------------------------------------------------------------------------
\* C23.  When getPlatformInfo() answers Hosted, initPlatform() and
\* getApiBaseUrl(exchange) finish without asking for the backend
\* descriptors (they never enter getBackendConfigs and leave
\* backendConfigsCache alone), and getApiBaseUrl returns
\* http://localhost:<port> where <port> is the exchange's environment
\* variable when it is set to a non-empty string, else 3001 for nse and
\* 3002 for mcx.
\* ------------------------------------------------------------------------
C23_HostedSkipsDiscovery ==
  [][\A t \in Tasks :
       LET ck == call'[t] IN
       /\ (ck.fn \in {"initPlatform", "getApiBaseUrl"} /\ ck.info = Hosted) =>
            /\ ck.pc \notin {"bc_import", "bc_invoke", "bc_sleep"}
            /\ ck.configs = Null
       /\ (call[t].pc = "pi_done" /\ call[t].info = Hosted /\ ck # call[t]) =>
            /\ ck.pc = "done"
            /\ backendConfigsCache' = backendConfigsCache
            /\ ck.fn = "getApiBaseUrl" =>
                 ck.ret = Ok(Str(<<"http://localhost:">> \o
                   (IF env[ck.exchange] \notin {Undefined, Str(<<>>)}
                      THEN env[ck.exchange].s
                    ELSE IF ck.exchange = "nse" THEN <<"3001">> ELSE <<"3002">>)))
  ]_vars

\* On a Hosted platform one caller resolved the nse URL from the
\* environment's port and the other the mcx URL from the default port
C23_Witness ==
  \E t, u \in Tasks :
    /\ env = [nse |-> Str(<<"5001">>), mcx |-> Str(<<>>)]
    /\ call[t].fn = "getApiBaseUrl" /\ call[t].pc = "done"
    /\ call[t].info = Hosted /\ call[t].exchange = "nse"
    /\ call[t].ret = Ok(Str(<<"http://localhost:", "5001">>))
    /\ call[u].fn = "getApiBaseUrl" /\ call[u].pc = "done"
    /\ call[u].info = Hosted /\ call[u].exchange = "mcx"
    /\ call[u].ret = Ok(Str(<<"http://localhost:", "3002">>))

\* ------------------------------------------------------------------------
\* C24.  When getPlatformInfo() answers a Tauri platform,
\* getApiBaseUrl(exchange) returns http://localhost:<port> with the port of
\* the first descriptor for that exchange in the list getBackendConfigs()
\* gave it, which is the memoized list at that moment; when the list has no
\* descriptor for the exchange it returns the default-port URL of the
\* exchange.
\* ------------------------------------------------------------------------
C24_EmbeddedUrlFromDescriptor ==
  [][\A t \in Tasks :
       LET ck == call'[t] IN
       (/\ ck.fn = "getApiBaseUrl" /\ ck.pc = "done" /\ call[t].pc # "done"
        /\ ck.info # Null /\ GetProp(ck.info, "is_tauri") = Bool(TRUE)) =>
         LET L == ck.configs.items
             hits == {i \in 1..Len(L) : L[i].f.exchange = Str(<<ck.exchange>>)}
             dflt == IF env[ck.exchange] \notin {Undefined, Str(<<>>)}
                       THEN env[ck.exchange].s
                     ELSE IF ck.exchange = "nse" THEN <<"3001">> ELSE <<"3002">>
         IN
         /\ backendConfigsCache' = ck.configs
         /\ IF hits = {}
              THEN ck.ret = Ok(Str(<<"http://localhost:">> \o dflt))
              ELSE \E i \in hits :
                     /\ \A j \in hits : i <= j
                     /\ ck.ret = Ok(Str(<<"http://localhost:">> \o L[i].f.port.s))
  ]_vars

\* On a Tauri platform one caller got the mcx port of the reported
\* descriptor, the other, given a list without an mcx descriptor, the
\* environment's port
C24_Witness ==
  \E t, u \in Tasks :
    /\ env.mcx = Str(<<"5002">>)
    /\ call[t].fn = "getApiBaseUrl" /\ call[t].pc = "done"
    /\ call[t].exchange = "mcx" /\ call[t].configs = ConfigsBoth
    /\ call[t].ret = Ok(Str(<<"http://localhost:", "4002">>))
    /\ call[u].fn = "getApiBaseUrl" /\ call[u].pc = "done"
    /\ call[u].exchange = "mcx" /\ call[u].configs = ConfigsOne
    /\ call[u].ret = Ok(Str(<<"http://localhost:", "5002">>))

\* The key builders, called twice with arguments of any kind
KeySpec == PureInit /\ [][KeyNext]_vars

\* ------------------------------------------------------------------------
\* C25.  Each key builder is deterministic and injective: two calls of
\* builders of one module yield the same key exactly when they name the
\* same resource and pass the same parameter values in the same order,
\* whatever the strings passed, the delimiter ':' included.
\* ------------------------------------------------------------------------
C25_KeysInjective ==
  \A i, j \in Calls :
    (built[i] # NotRun /\ built[j] # NotRun /\ built[i].mod = built[j].mod) =>
      ((built[i].name = built[j].name /\ built[i].args = built[j].args)
         <=> built[i].key = built[j].key)

\* ------------------------------------------------------------------------
\* C26.  The historical-data key of getHistoricalData has the sentinel
\* 'null' in the position of an omitted option type or strike price, has
\* the resource name and seven fields, and the key of a call that omits an
\* optional parameter differs from the key of every call that supplies a
\* value for that parameter and agrees in all other parameters.
\* ------------------------------------------------------------------------
C26_SentinelKeepsKeysApart ==
  /\ \A i \in Calls :
       (built[i] # NotRun /\ built[i].params # Null) =>
         /\ Len(built[i].key.s) = 15
         /\ built[i].params.option_type = Undefined => built[i].key.s[13] = "null"
         /\ built[i].params.strike_price = Undefined => built[i].key.s[15] = "null"
  /\ \A i, j \in Calls :
       (/\ built[i] # NotRun /\ built[i].params # Null
        /\ built[j] # NotRun /\ built[j].params # Null) =>
         \A f \in {"option_type", "strike_price"} :
           (/\ built[i].params[f] = Undefined
            /\ built[j].params[f] \notin {Undefined, Str(<<>>)}
            /\ [built[i].params EXCEPT ![f] = Null]
                 = [built[j].params EXCEPT ![f] = Null]) =>
             built[i].key # built[j].key

\* getDataAge of either store class, called twice
AgeSpec == PureInit /\ [][AgeNext]_vars

\* ------------------------------------------------------------------------
\* C27.  getDataAge(lastUpdated, now) with d = now - lastUpdated yields
\* 'just now' for d under 60 s (d <= 0 included), 'N minute(s) ago' with
\* N = whole minutes for 1..59 minutes, 'N hour(s) ago' with N = whole hours
\* for 1..23 hours, 'N day(s) ago' with N = whole days from 24 hours on, the
\* unit in the singular exactly when N = 1.
\* ------------------------------------------------------------------------
C27_AgeBuckets ==
  \A i \in Calls :
    (aged[i] # NotRun /\ aged[i].currentTime # Undefined) =>
      LET d == aged[i].currentTime.n - aged[i].lastUpdated
      IN aged[i].result.s =
           (IF d < 60000 THEN <<"just now">>
            ELSE IF d < 3600000
              THEN <<ToString(d \div 60000), " ", "minute">>
                     \o (IF d \div 60000 = 1 THEN <<>> ELSE <<"s">>) \o <<" ago">>
            ELSE IF d < 86400000
              THEN <<ToString(d \div 3600000), " ", "hour">>
                     \o (IF d \div 3600000 = 1 THEN <<>> ELSE <<"s">>) \o <<" ago">>
            ELSE <<ToString(d \div 86400000), " ", "day">>
                     \o (IF d \div 86400000 = 1 THEN <<>> ELSE <<"s">>) \o <<" ago">>)

\* ------------------------------------------------------------------------
\* C28.  getDataAge is a pure function of (lastUpdated, now) on both
\* backends: two calls with the same lastUpdated and the same supplied now
\* return the same string, whichever the store class and whatever the wall
\* clock shows during the call.
\* ------------------------------------------------------------------------
C28_AgeSameOnBothBackends ==
  \A i, j \in Calls :
    (/\ aged[i] # NotRun /\ aged[j] # NotRun
     /\ aged[i].currentTime # Undefined
     /\ aged[i].currentTime = aged[j].currentTime
     /\ aged[i].lastUpdated = aged[j].lastUpdated) =>
      aged[i].result = aged[j].result

\* The two clients as far as their historical-data operations go
HistoricalSpec == HistoricalInit /\ [][HistoricalNext]_vars

\* ------------------------------------------------------------------------
\* C29.  Every data-fetching operation looks its key up in the cache before
\* it calls the backend and stores what a successful call returned: a
\* settled operation that issued the remote call had its getData(key)
\* answered before, and one that returns a backend envelope of success with
\* data has written that data.
\* ------------------------------------------------------------------------
C29_EveryFetchIsCached ==
  \A t \in Tasks :
    FetchDone(t) =>
      LET tk == task[t] IN
      /\ RemoteCalled(tk) => tk.cached # NotRun
      /\ (tk.ret.st = "ok" /\ tk.resp # NotRun /\ tk.ret.v = tk.resp
            /\ ShouldStore(tk.resp)) =>
           GetProp(tk.stored, "data") = GetProp(tk.resp, "data")

\* ------------------------------------------------------------------------
\* C30.  DataStorageTauri.init() is memoized under every interleaving of
\* storeData/getData/clearData/clearAllData calls on one instance: the
\* persisted store is loaded at most once, so no load() resolves into
\* this.store when the instance is initialized already.
\* ------------------------------------------------------------------------
C30_StoreLoadedOnce ==
  [][\A t \in Tasks :
       (task[t].pc = "load" /\ task'[t].pc \in {"set", "get", "delete", "keys"}) =>
         ~initialized
  ]_vars

\* ------------------------------------------------------------------------
\* C31.  On DataStorageTauri a storeData, clearData or clearAllData call
\* resolves successfully only in the step in which its own save() completes,
\* which comes after every set/delete the call issued and leaves nothing in
\* the store unflushed.
\* ------------------------------------------------------------------------
C31_MutationsAreFlushed ==
  [][\A t \in Tasks :
       (/\ task[t].db = "tauri"
        /\ task[t].sop \in {"storeData", "clearData", "clearAllData"}
        /\ task[t].pc # "done" /\ task'[t].pc = "done"
        /\ task'[t].ret.st = "ok") =>
         /\ task[t].pc = "save"
         /\ task[t].todo = <<>>
         /\ ~unsaved'
  ]_vars

\* A clearAllData() that had entries to delete has resolved, the store
\* flushed
C31_Witness ==
  \E t \in Tasks :
    /\ task[t].kind = "clearAllData" /\ task[t].db = "tauri"
    /\ task[t].pc = "done" /\ task[t].ret = Ok(Undefined)
    /\ Len(task[t].keysToDelete) > 0
    /\ ~unsaved

\* ------------------------------------------------------------------------
\* C32.  Identical concurrent fetches are not de-duplicated.  Every settled
\* fetch whose getData(key) missed has issued its own remote call, also when
\* the other caller's fetch of the same key is under way or settled; every
\* caller whose backend answer carries data issues its own storeData; a
\* write applied by one caller while the other caller's fetch of the same
\* key is under way or settled replaces the slot with the writer's entry and
\* adds no second key; and once both callers have settled after storing,
\* the one slot of the key holds the entry of one of the two writes.
\* ------------------------------------------------------------------------
SameFetch(tk, uk) ==
  /\ tk.kind = "fetch" /\ uk.kind = "fetch"
  /\ tk.op = uk.op /\ tk.db = uk.db /\ tk.key = uk.key

SlotRaw(ls, mem, db, key) == getItem(Medium(ls, mem, db), FullKey(key))

EntryRaw(tk) ==
  IF tk.db = "web" THEN JSONstringify(tk.stored) ELSE ToJSON(tk.stored)

StoredOk(tk) ==
  /\ tk.pc = "done" /\ tk.resp # NotRun /\ tk.resp.t = "object"
  /\ ShouldStore(tk.resp) /\ tk.ret.st = "ok"

C32_NoDeduplication ==
  [][\A t \in Tasks : \A u \in Tasks \ {t} :
       LET tk == task'[t]
           uk == task'[u] IN
       /\ (tk.kind = "fetch" /\ tk.pc = "done" /\ Miss(tk)) => RemoteCalled(tk)
       /\ (task[t].pc = "remote" /\ tk # task[t] /\ tk.resp.t = "object"
             /\ ShouldStore(tk.resp)) =>
            (tk.sop = "storeData" \/ tk.stored # Undefined)
       /\ (FetchWriteStep(t) /\ SameFetch(tk, uk)) =>
            /\ SlotRaw(localStorage', tauriMem', tk.db, tk.key) = EntryRaw(tk)
            /\ GetProp(tk.stored, "data") = GetProp(tk.resp, "data")
            /\ DOMAIN Medium(localStorage', tauriMem', tk.db)
                 = DOMAIN Medium(localStorage, tauriMem, tk.db) \cup {FullKey(tk.key)}
       /\ (SameFetch(tk, uk) /\ StoredOk(tk) /\ StoredOk(uk)) =>
            SlotRaw(localStorage', tauriMem', tk.db, tk.key)
              \in {EntryRaw(tk), EntryRaw(uk)}
  ]_vars

\* Both callers asked for the same key without forceRefresh, both lookups
\* missed, both backend calls were made and answered with different data,
\* both writes succeeded, and the slot holds the second caller's entry and
\* not the first caller's
C32_Witness ==
  /\ SameFetch(task["t1"], task["t2"])
  /\ \A t \in Tasks :
       /\ FetchDone(t) /\ ~task[t].force /\ Miss(task[t])
       /\ task[t].resp = RespOk(RespData(t))
       /\ task[t].ret = Ok(task[t].resp)
  /\ SlotRaw(localStorage, tauriMem, task["t2"].db, task["t2"].key)
       = EntryRaw(task["t2"])
  /\ GetProp(task["t1"].stored, "data") = D1
  /\ GetProp(task["t2"].stored, "data") = D2

\* ------------------------------------------------------------------------
\* C33 as stated.  In the step in which a clearAllData() resolves, with
\* storeData calls of another caller interleaved in any way, the medium
\* holds no key with the namespace prefix.
\* ------------------------------------------------------------------------
C33_ClearAllLeavesNothing ==
  [][\A t \in Tasks :
       (/\ task[t].sop = "clearAllData"
        /\ task[t].pc # "done" /\ task'[t].pc = "done"
        /\ task'[t].ret.st = "ok") =>
          PrefixedKeys(Medium(localStorage', tauriMem', task'[t].db)) = {}
  ]_vars

\* ------------------------------------------------------------------------
\* C34.  A fetch whose backend answer is success with data settles in one of
\* two ways.  It returns the envelope only when its storeData completed: on
\* localStorage the settling step leaves the slot holding the entry just
\* built, on the Tauri store the settling step is the completion of the
\* call's save().  Otherwise it rejects with the error of the store
\* (setItem, init, set or save), and the caller receives no envelope.
\* ------------------------------------------------------------------------
StorageErrors ==
  {"QuotaExceededError", "StoreError", "StoreLoadError", "Tauri store not initialized"}

C34_FailedWriteRejects ==
  [][\A t \in Tasks :
       FetchSettleStep(t) =>
         LET tk == task'[t] IN
         \/ /\ tk.ret = Ok(tk.resp)
            /\ IF tk.db = "web"
                 THEN getItem(localStorage', FullKey(tk.key)) = JSONstringify(tk.stored)
                 ELSE /\ task[t].pc = "save" /\ task[t].sop = "storeData"
                      /\ ~unsaved'
         \/ /\ tk.ret.st = "throw"
            /\ tk.ret.e \in StorageErrors
  ]_vars

\* The backend answered success with data, the cache write failed, and the
\* fetch has rejected with the store's error
C34_Witness ==
  \E t \in Tasks :
    /\ FetchDone(t) /\ task[t].resp = RespOk(RespData(t))
    /\ task[t].ret.st = "throw" /\ task[t].ret.e \in StorageErrors

\* ------------------------------------------------------------------------
\* C35 as stated.  A getHistoricalData call whose store lookup runs while
\* the slot of its key holds an entry settles in that step with the entry,
\* fromCache=true, and without a remote call.
\* ------------------------------------------------------------------------
IsHist(tk) == tk.kind = "fetch" /\ tk.op = getHistoricalData.name

EntryAt(mem, tk) == getItem(mem, FullKey(tk.key))

HistLookupStep(t) ==
  /\ IsHist(task[t]) /\ task[t].pc = "get" /\ task'[t] # task[t]
  /\ FullKey(task[t].key) \in DOMAIN tauriMem
  /\ ToBoolean(EntryAt(tauriMem, task[t]))

ServedFromCache(tk, entry) ==
  /\ tk.pc = "done" /\ tk.cached = entry
  /\ tk.ret = Ok(CacheEnvelope(entry))
  /\ GetProp(tk.ret.v, "fromCache") = Bool(TRUE)
  /\ GetProp(tk.ret.v, "data") = GetProp(entry, "data")
  /\ ~RemoteCalled(tk)

CountOf(configs, exchange) ==
  Cardinality({i \in 1..Len(configs.items) :
                 GetProp(configs.items[i], "exchange") = Str(<<exchange>>)})

EndedInFallback(ck) ==
  /\ ck.fn = "getBackendConfigs" /\ ck.pc = "done"
  /\ ck.atStart = Null
  /\ IF ck.reported = NotRun THEN TRUE ELSE ~Accepted(ck.reported)

C36_CacheNullOrNonEmpty ==
  /\ \/ backendConfigsCache = Null
     \/ /\ backendConfigsCache.t = "array"
        /\ Len(backendConfigsCache.items) > 0
  /\ \A t \in Tasks :
       EndedInFallback(call[t]) =>
         /\ call[t].ret.st = "ok"
         /\ Len(call[t].ret.v.items) = 2
         /\ CountOf(call[t].ret.v, "nse") = 1
         /\ CountOf(call[t].ret.v, "mcx") = 1
         /\ ToBoolean(backendConfigsCache)

\* The bridge has answered a query with an empty list, nothing was memoized
\* for it, and the call has ended in the fallback with the two-descriptor
\* list in the memo
C36_Witness ==
  \E t \in Tasks :
    /\ EndedInFallback(call[t])
    /\ call[t].reported = Ok(Arr(<<>>))
    /\ backendConfigsCache = call[t].ret.v
    /\ CountOf(backendConfigsCache, "nse") = 1
    /\ CountOf(backendConfigsCache, "mcx") = 1

\* ------------------------------------------------------------------------
\* C37.  Provided every import, bridge query and sleep eventually completes,
\* every getBackendConfigs() call that is waiting eventually returns a
\* non-empty list.  While a call is in its retry loop its counter is between
\* 1 and 10 and it has issued 11 - retries queries; every sleep that follows
\* an unsuccessful query lowers the counter by one; no call issues more than
\* 10 queries.
\* ------------------------------------------------------------------------
Waiting(t) ==
  call[t].fn = "getBackendConfigs" /\ call[t].pc \in {"bc_import", "bc_invoke", "bc_sleep"}

ReturnedList(t) ==
  /\ call[t].fn = "getBackendConfigs" /\ call[t].pc = "done"
  /\ call[t].ret.st = "ok"
  /\ call[t].ret.v.t = "array" /\ Len(call[t].ret.v.items) > 0

C37_DiscoveryTerminates ==
  /\ \A t \in Tasks : Waiting(t) ~> ReturnedList(t)
  /\ [][\A t \in Tasks :
          LET ck == call'[t] IN
          /\ (ck.fn = "getBackendConfigs" /\ ck.pc \in {"bc_invoke", "bc_sleep"}) =>
               /\ ck.retries \in 1..10
               /\ ck.queries = 11 - ck.retries
          /\ (call[t].pc = "bc_sleep" /\ ck # call[t]) =>
               /\ ck.retries = call[t].retries - 1
               /\ ck.retries >= 0
               /\ ck.pc = "done" <=> ck.retries = 0
          /\ ck.fn = "getBackendConfigs" => ck.queries <= 10
     ]_vars

\* A call has returned the bridge's list on its fifth query, after four
\* unsuccessful attempts each followed by a sleep
C37_Witness ==
  \E t \in Tasks :
    /\ ReturnedList(t)
    /\ call[t].queries = 5 /\ call[t].retries = 6
    /\ call[t].ret = Ok(ConfigsOne)

\* ------------------------------------------------------------------------
\* C38 as stated.  isTauri() answers false until an initPlatform() call has
\* resolved: its answer changes only in a step in which an initPlatform()
\* call resolves; and whenever an initPlatform() call is resolved, isTauri()
\* answers the is_tauri of the memoized PlatformInfo.
\* ------------------------------------------------------------------------
\* return isTauriSync ?? false
isTauri == IF isTauriSync \in {Null, Undefined} THEN Bool(FALSE) ELSE isTauriSync

InitPlatformResolves(t) ==
  /\ call'[t].fn = "initPlatform"
  /\ call[t].pc # "done" /\ call'[t].pc = "done"

C38_IsTauriFollowsInit ==
  [][/\ isTauri' # isTauri => \E t \in Tasks : InitPlatformResolves(t)
     /\ \A t \in Tasks :
          (call'[t].fn = "initPlatform" /\ call'[t].pc = "done") =>
            isTauri' = GetProp(platformCache', "is_tauri")
  ]_vars

\* ------------------------------------------------------------------------
\* The workflow-trigger worker on its own
\* ------------------------------------------------------------------------
WorkflowSpec == PureInit /\ [][WorkflowNext]_vars

\* ------------------------------------------------------------------------
\* C39.  shouldRunWorkflow() decides in the order holiday, weekend opening,
\* extended hours, regular weekend, normal hours.  With date, weekday and
\* time of day taken in Asia/Kolkata: on a holiday date the answer is false
\* at every time, also inside an extended-hours window of that date; on a
\* date that is no holiday and has a weekend-opening entry the answer is
\* true exactly when the time is inside that entry's hours; else on a date
\* with an extended-hours entry, exactly when the time is inside that
\* entry's hours; otherwise exactly on Monday to Friday from 09:15 to 15:30,
\* both ends included.
\* ------------------------------------------------------------------------
\* 'HH:MM' as minutes of the day
MinutesOf(s) == ((s[1] - 48) * 10 + (s[2] - 48)) * 60 + (s[4] - 48) * 10 + (s[5] - 48)

KolkataDate(instant) == 7 + (KolkataMinutes(instant) \div 1440)
KolkataTime(instant) == KolkataMinutes(instant) % 1440
\* 2026-11-07 is a Saturday; 0 is Sunday
KolkataWeekday(instant) == (6 + (KolkataMinutes(instant) \div 1440)) % 7

DateOf(entry) == entry.date.s

EntriesOn(table, instant) ==
  {i \in 1..Len(table) : DateOf(table[i]) = <<"2026-11-">> \o Pad2(KolkataDate(instant))}

Inside(instant, hours) ==
  /\ MinutesOf(hours.start) <= KolkataTime(instant)
  /\ KolkataTime(instant) <= MinutesOf(hours.end)

HolidayOn(instant, schedule) ==
  \E h \in schedule.holidays : h.s = <<"2026-11-">> \o Pad2(KolkataDate(instant))

Expected(instant, schedule) ==
  LET opening == EntriesOn(schedule.weekendOpenings, instant)
      extended == EntriesOn(schedule.extendedHours, instant)
  IN IF HolidayOn(instant, schedule) THEN FALSE
     ELSE IF opening # {}
       THEN \E i \in opening :
              /\ \A j \in opening : i <= j
              /\ Inside(instant, schedule.weekendOpenings[i].hours)
     ELSE IF extended # {}
       THEN \E i \in extended :
              /\ \A j \in extended : i <= j
              /\ Inside(instant, schedule.extendedHours[i].hours)
     ELSE /\ KolkataWeekday(instant) \in 1..5
          /\ 9 * 60 + 15 <= KolkataTime(instant)
          /\ KolkataTime(instant) <= 15 * 60 + 30

====
